---------------------------- MODULE Spec2Model ----------------------------
(***************************************************************************)
(* Model of the mixminion server keyring                                   *)
(* (lib/mixminion/server/ServerKeys.py, class ServerKeyring).              *)
(*                                                                         *)
(* Times are seconds since the epoch, as in the code.  A key directory     *)
(* key_NNNN is identified by the integer NNNN.  The descriptor of a keyset *)
(* stores its validity window as two dates, so the window read back from   *)
(* disk is always a pair of midnights.                                     *)
(***************************************************************************)
EXTENDS Integers, Sequences, FiniteSets, TLC

\* ------------------------------------------------------------------ bounds
MaxTick == 1        \* the clock takes the days StartDay + DayStep*(0..MaxTick)
MaxKeyNum == 5      \* key numbers handed out stay <= MaxKeyNum
MaxFail == 1        \* descriptor builds that raise, in one run
MaxContexts == 3    \* TLS keys and certificate chains generated, in one run
MaxIdentities == 2  \* identity keys generated, in one run
MaxHold == 2        \* keyring.lock() calls a thread has outstanding
MaxRetry == 2       \* createKeys calls that raise in any round, in one run

\* ------------------------------------------------------- program constants
Day == 86400
PUBLICATION_LATENCY == 219600         \* (2*24+13)*60*60
PREPUBLICATION_INTERVAL == 1209600    \* 14*24*60*60
KeygenLeeway == 10
StartSlack == 60
RoundSlack == 30
MaxInt == 2147483647                  \* sys.maxint
CERTIFICATE_LIFETIME == 86400         \* 24*60*60

\* ------------------------------------------------------------ environment
StartDay == 20089                     \* 2025-01-01, in days since the epoch
DayStep == 9
\* Times of day the clock is observed at: 11:00:05 (the horizon falls 5s
\* after a midnight), noon, and 23:59:30.
ClockOffsets == {39605, 43200, 86370}
ClockValues == { (StartDay + DayStep * i) * Day + o : i \in 0..MaxTick, o \in ClockOffsets }

\* Values of [Server]PublicKeyLifetime (seconds): 17 days, 30 days (the
\* default), 7.5 days and 8 days less 25 seconds.  All are >= 1 day.
Lifetimes == { 17 * Day, 30 * Day, 648000, 691175 }
\* Values of [Server]PublicKeyOverlap (seconds): 6 hours, 24 hours, 72 hours.
Overlaps == { 21600, 86400, 259200 }
\* Values of [Server]Nickname.
Nicknames == {1, 2}
\* The configurations examined: << PublicKeyLifetime, PublicKeyOverlap >>.
Configs == { << 17 * Day, 21600 >>, << 30 * Day, 86400 >>,
             << 648000, 259200 >>, << 691175, 21600 >> }

VARIABLES
    clock,        \* time.time()
    lifetime,     \* config['Server']['PublicKeyLifetime'].getSeconds()
    keyOverlap,   \* self.keyOverlap
    disk,         \* key directories on disk: key number -> contents
    keySets,      \* self.keySets: sorted sequence of <<va, vu, name>>
    keyRange,     \* self.keyRange: <<firstKey, lastKey>>
    currentKeys,  \* self.currentKeys: names of the live keysets, or "None"
    nextUpdate,   \* self.nextUpdate: a time, or -1 for None
    handlerKeys,  \* the snapshot last given to packetHandler.setKeys
    statusFile,   \* lines last written to the status file
    last,         \* what the last keyring call was and how it ended
    generated,    \* keysets written by the last createKeys call, in order
    failures,     \* descriptor builds that have raised so far
    pc,           \* per thread: where it is in the call it is making
    loc,          \* per thread: the locals of its updateKeys call
    lockOwner,    \* self._lock: the thread holding it, 0 when free
    lockCount,    \* self._lock: how many times its owner has acquired it
    seen,         \* what the last getCurrentDescriptor call read
    nickname,     \* config['Server']['Nickname'], as a number
    objs,         \* the ServerKeyset objects of self.keySets, by key number
    tlsContext,   \* self._tlsContext: a context's number, or -1 for None
    tlsContextExpires, \* self._tlsContextExpires
    certFile,     \* the cert_chain file: the context it was written for, 0: absent
    serverContext,\* the context last given to mmtpServer.setServerContext
    contexts,     \* TLS keys (and certificate chains) generated so far
    identity,     \* the file identity.key: the key in it, NoIdentity when absent
    idMade,       \* identity keys generated so far
    idBits,       \* config['Server']['IdentityKeyBits']
    held          \* per thread: its keyring.lock() calls not yet unlocked

vars == << clock, lifetime, keyOverlap, disk, keySets, keyRange, currentKeys,
           nextUpdate, handlerKeys, statusFile, last, generated, failures,
           pc, loc, lockOwner, lockCount, seen,
           nickname, objs, tlsContext, tlsContextExpires, certFile,
           serverContext, contexts, identity, idMade, idBits, held >>

\* The configured nickname and the TLS state.
xvars == << nickname, tlsContext, tlsContextExpires, certFile, serverContext, contexts >>

\* The identity key, its configured size, and the callers' own locks.
ivars == << identity, idMade, idBits, held >>

\* The threads' part of the state.
tvars == << pc, loc, lockOwner, lockCount, seen >>

Threads == {1, 2}

None == -1

\* ------------------------------------------------------- mixminion.Common
previousMidnight(t) == t - (t % Day)

ceilDiv(a, b) == ((a - 1) \div b) + 1

\* formatDate writes only the date of a time; the descriptor parser reads a
\* date back as the midnight that starts it.
formatDate(t) == t \div Day
parseDate(d) == d * Day

\* ------------------------------------------- ServerKeyring.getIdentityKey
\* An identity key: its number in the order of generation, and its size.
IdentityKey(id, bits) == [id |-> id, bits |-> bits]

\* No file identity.key.
NoIdentity == IdentityKey(0, 0)

\* (mutant: a stored key of another size than configured is replaced)
getIdentityKey_Resize(idf, made, bits) ==
    IF idf # NoIdentity /\ idf.bits = bits THEN [key |-> idf, made |-> made]
    ELSE [key |-> IdentityKey(made + 1, bits), made |-> made + 1]

\* getIdentityKey(): the key in identity.key when the file exists, whatever
\* its size; else a new key of the configured size, saved to the file.
\* 'key' is the key returned, which is also the file's content afterwards.
getIdentityKey(idf, made, bits) ==
    IF idf # NoIdentity THEN [key |-> idf, made |-> made]
    ELSE [key |-> IdentityKey(made + 1, bits), made |-> made + 1]

\* The identity key a descriptor built now is signed with.
Signer == getIdentityKey(identity, idMade, idBits).key

\* A call of getIdentityKey() inside a keyring method.
UseIdentityKey ==
    /\ identity' = getIdentityKey(identity, idMade, idBits).key
    /\ idMade' = getIdentityKey(identity, idMade, idBits).made

\* ------------------------------------------------------------ ServerKeyset
\* A key directory: does mix.key exist, does a valid ServerDesc exist, and
\* the Valid-After / Valid-Until dates of the descriptor; besides, which
\* packet key mix.key holds (the count of keys saved into this directory),
\* the Nickname the descriptor was built with, and whether the file
\* 'published' exists.  A directory is made without the file 'published'.
\* Further: whether mix.key is readable by its owner only, whether
\* ServerDesc parses, the identity key the descriptor carries, and the
\* PublicKeyOverlap in the configuration summary of its [Testing] section.
KeyDir(hasKey, hasDesc, va, vu) ==
    [hasKey |-> hasKey, hasDesc |-> hasDesc, va |-> va, vu |-> vu,
     key |-> IF hasKey THEN 1 ELSE 0,
     nick |-> IF hasDesc THEN nickname ELSE 0,
     published |-> FALSE,
     private |-> TRUE,
     parses |-> TRUE,
     signer |-> IF hasDesc THEN Signer ELSE NoIdentity,
     summary |-> IF hasDesc THEN keyOverlap ELSE 0]

DirNames(d) == DOMAIN d

\* ServerKeyset.delete: the directory is removed from disk.
DeleteDirs(d, names) == [n \in (DOMAIN d) \ names |-> d[n]]

PutDir(d, n, rec) == [m \in (DOMAIN d) \cup {n} |-> IF m = n THEN rec ELSE d[m]]

\* ServerKeyset.getLiveness: the window parsed from the descriptor.
getLiveness(rec) == << parseDate(rec.va), parseDate(rec.vu) >>

\* ----------------------------------------------------------------- sorting
TupleLess(a, b) ==
    \/ a[1] < b[1]
    \/ a[1] = b[1] /\ a[2] < b[2]
    \/ a[1] = b[1] /\ a[2] = b[2] /\ a[3] < b[3]

RECURSIVE SortTuples(_)
SortTuples(S) ==
    IF S = {} THEN << >>
    ELSE LET m == CHOOSE x \in S : \A y \in S \ {x} : TupleLess(x, y)
         IN  << m >> \o SortTuples(S \ {m})

SetMin(S) == CHOOSE x \in S : \A y \in S : x <= y
SetMax(S) == CHOOSE x \in S : \A y \in S : x >= y

Names(ks) == { ks[i][3] : i \in 1..Len(ks) }


\* ---------------------------------------------------- ServerKeyring.checkKeys
\* The scan of the key directory.  A directory is kept when its packet key
\* and its descriptor are both usable; the others are deleted.  The key
\* range is taken over every numbered directory the scan walks over.
\* Common.checkPrivateFile on mix.key: the file exists and is owner-only.
checkPrivateFile(rec) == rec.hasKey /\ rec.private

\* ServerInfo(fname=descFile): the file exists and parses.
DescriptorLoads(rec) == rec.hasDesc /\ rec.parses

\* (mutant: the descriptor is not looked at)
GoodNames_KeyOnly(d) == { n \in DOMAIN d : checkPrivateFile(d[n]) }

GoodNames(d) == { n \in DOMAIN d : checkPrivateFile(d[n]) /\ DescriptorLoads(d[n]) }

ScanKeySets(d) ==
    SortTuples({ << getLiveness(d[n])[1], getLiveness(d[n])[2], n >> : n \in GoodNames(d) })

\* (mutant: the range taken over the directories that are kept)
ScanKeyRange_Kept(d) ==
    << IF GoodNames(d) = {} THEN MaxInt ELSE SetMin(GoodNames(d)),
       SetMax(GoodNames(d) \cup {0}) >>

ScanKeyRange(d) ==
    << IF DOMAIN d = {} THEN MaxInt ELSE SetMin(DOMAIN d),
       SetMax((DOMAIN d) \cup {0}) >>

\* The ServerKeyset objects the scan leaves in self.keySets: 'published'
\* is read from the file, and getServerDescriptor / getLiveness have filled
\* the object's serverinfo (here: the Nickname in it), validAfter and
\* validUntil.
ScanObjs(d) ==
    [ n \in GoodNames(d) |->
        [ published   |-> d[n].published,
          serverinfo  |-> d[n].nick,
          validAfter  |-> getLiveness(d[n])[1],
          validUntil  |-> getLiveness(d[n])[2] ] ]

checkKeys(d) ==
    [ keySets  |-> ScanKeySets(d),
      disk     |-> DeleteDirs(d, (DOMAIN d) \ GoodNames(d)),
      keyRange |-> ScanKeyRange(d) ]

\* ------------------------------------------------ ServerKeyring.getNextKeygen
getNextKeygen(ks) ==
    IF ks = << >> THEN -1
    ELSE ks[Len(ks)][2] - PUBLICATION_LATENCY - PREPUBLICATION_INTERVAL

\* ----------------------------------- ServerKeyring.getDeadKeys / _getLiveKeys
\* (mutant: the filter of getDeadKeys inverted)
IsDead_Inverted(e, now, overlap) == e[2] >= now - overlap

IsDead(e, now, overlap) == ~(e[2] >= now - overlap)

\* (mutant: everything that is not live counts as dead)
getDeadKeys_NotLive(ks, now, overlap) ==
    LET Test(e) == ~(e[1] <= now /\ e[2] >= now - overlap) IN SelectSeq(ks, Test)

getDeadKeys(ks, now, overlap) ==
    LET Test(e) == IsDead(e, now, overlap) IN SelectSeq(ks, Test)

\* (mutant: the overlap left out of the cutoff)
IsLive_NoOverlap(e, now, overlap) == e[1] <= now /\ e[2] >= now

IsLive(e, now, overlap) == e[1] <= now /\ e[2] >= now - overlap

getLiveKeys(ks, now, overlap) ==
    LET Test(e) == IsLive(e, now, overlap) IN SelectSeq(ks, Test)

\* getServerKeysets loads each live keyset and returns them in order.
getServerKeysets(ks, now, overlap) == getLiveKeys(ks, now, overlap)

\* ------------------------------------------- ServerKeyring.getNextKeyRotation
RotationEvents(ks, cur, overlap) ==
    { cur[i][2] + overlap : i \in 1..Len(cur) }
        \cup { ks[i][1] : i \in { j \in 1..Len(ks) : ks[j][3] \notin Names(cur) } }

getNextKeyRotation(ks, cur, overlap) ==
    IF RotationEvents(ks, cur, overlap) = {} THEN MaxInt
    ELSE SetMin(RotationEvents(ks, cur, overlap))

\* --------------------------------------------- generateServerDescriptorAndKeys
\* The window written into the descriptor of a keyset asked to start at
\* validAt (no validUntil given).
\* (mutant: validAt rounded without the 30 seconds)
DescValidAfter_NoSlack(validAt) == previousMidnight(validAt)

DescValidAfter(validAt) == previousMidnight(validAt + RoundSlack)

\* (mutant: the prepublication interval taken for the lifetime)
DescValidUntil_Interval(validAfter, keyLifetime) ==
    previousMidnight(validAfter + PREPUBLICATION_INTERVAL + RoundSlack)

DescValidUntil(validAfter, keyLifetime) ==
    previousMidnight(validAfter + keyLifetime + RoundSlack)

\* A finished key directory: the packet key saved, the descriptor written.
NewKeyDir(validAt, keyLifetime) ==
    KeyDir(TRUE, TRUE,
           formatDate(DescValidAfter(validAt)),
           formatDate(DescValidUntil(DescValidAfter(validAt), keyLifetime)))

\* A key directory whose descriptor build raised after the packet key was
\* saved: a fresh directory holds only the key; an existing one keeps its
\* old descriptor beside the new key.
HalfMadeDir(d, n) ==
    IF n \in DOMAIN d THEN [d[n] EXCEPT !.hasKey = TRUE, !.key = @ + 1, !.private = TRUE]
    ELSE KeyDir(TRUE, FALSE, 0, 0)

\* ---------------------------------------------------- ServerKeyring.createKeys
\* The time the first new keyset is asked to start at (startAt=None).
FirstStartAt(ks, now) ==
    previousMidnight(
        IF ks # << >>
        THEN IF ks[Len(ks)][2] + StartSlack < now THEN now + StartSlack
             ELSE ks[Len(ks)][2] + StartSlack
        ELSE now + StartSlack)

\* (mutant: names are only taken upward)
AllocName_Upward(range) ==
    IF range[1] = MaxInt THEN [keynum |-> 1, range |-> << 1, 1 >>]
    ELSE [keynum |-> range[2] + 1, range |-> << range[1], range[2] + 1 >>]

\* The next key number and the key range after taking it.
AllocName(range) ==
    IF range[1] = MaxInt THEN [keynum |-> 1, range |-> << 1, 1 >>]
    ELSE IF range[1] > 1 THEN [keynum |-> range[1] - 1, range |-> << range[1] - 1, range[2] >>]
    ELSE [keynum |-> range[2] + 1, range |-> << range[1], range[2] + 1 >>]

\* The step from one keyset's start to the next one's.
NextStart(startAt, keyLifetime) == startAt + keyLifetime

\* The loop of createKeys from its i-th round on.  failAt is the round whose
\* descriptor build raises (0: none does).
RECURSIVE GenKeys(_, _, _, _, _, _, _, _)
GenKeys(i, num, startAt, range, d, gen, keyLifetime, failAt) ==
    IF i > num THEN [ok |-> TRUE, disk |-> d, gen |-> gen]
    ELSE LET a == AllocName(range)
         IN  IF failAt = i
             THEN [ok |-> FALSE, disk |-> PutDir(d, a.keynum, HalfMadeDir(d, a.keynum)),
                   gen |-> gen]
             ELSE LET rec == NewKeyDir(startAt, keyLifetime)
                  IN  GenKeys(i + 1, num, NextStart(startAt, keyLifetime), a.range,
                              PutDir(d, a.keynum, rec),
                              Append(gen, [name |-> a.keynum, at |-> startAt,
                                           until |-> None,
                                           va |-> getLiveness(rec)[1],
                                           vu |-> getLiveness(rec)[2]]),
                              keyLifetime, failAt)

createKeys(num, ks, range, d, now, keyLifetime, failAt) ==
    GenKeys(1, num, FirstStartAt(ks, now), range, d, << >>, keyLifetime, failAt)

\* -------------------------------------------- ServerKeyring.createKeysAsNeeded
\* (mutant: no leeway)
NeedsKeys_NoLeeway(ks, now) == ~(getNextKeygen(ks) > now)

NeedsKeys(ks, now) == ~(getNextKeygen(ks) > now - KeygenLeeway)

LastExpiry(ks, now) ==
    IF ks # << >>
    THEN IF ks[Len(ks)][2] < now THEN now ELSE ks[Len(ks)][2]
    ELSE now

\* (mutant: the publication latency left out of the time to cover)
nKeysNeeded_NoLatency(ks, now, keyLifetime) ==
    ceilDiv(now + PREPUBLICATION_INTERVAL - LastExpiry(ks, now), keyLifetime)

nKeysNeeded(ks, now, keyLifetime) ==
    ceilDiv(now + PUBLICATION_LATENCY + PREPUBLICATION_INTERVAL - LastExpiry(ks, now),
            keyLifetime)


\* ------------------------------------------------------------ initial state
\* ServerKeyring.__init__ / configure on an empty key directory: the scan
\* finds nothing.
NoDirs == [n \in {} |-> KeyDir(FALSE, FALSE, 0, 0)]

\* A finished call: its name, its time argument, whether it returned
\* normally, the keysets it returned or pushed, the keysets it found dead.
Call(op, now, ok, res, dead) ==
    [op |-> op, now |-> now, ok |-> ok, res |-> res, dead |-> dead]

\* The locals of updateKeys: 'when', whether the caller holds the lock
\* around the call, deadKeys, keys, which scan is running, the steps taken
\* so far and the snapshot given to the packet handler.
Locals(when, bracket, dead, keys, phase, steps, pushed) ==
    [when |-> when, bracket |-> bracket, dead |-> dead, keys |-> keys,
     phase |-> phase, steps |-> steps, pushed |-> pushed]

NoLocals == Locals(0, FALSE, << >>, << >>, 1, << >>, << >>)

Init ==
    /\ clock \in { c \in ClockValues : c < (StartDay + 1) * Day }
    /\ lifetime \in Lifetimes
    /\ keyOverlap \in Overlaps
    /\ << lifetime, keyOverlap >> \in Configs
    /\ disk = NoDirs
    /\ keySets = checkKeys(NoDirs).keySets
    /\ keyRange = checkKeys(NoDirs).keyRange
    /\ currentKeys = [set |-> FALSE, keys |-> << >>]
    /\ nextUpdate = None
    /\ handlerKeys = << >>
    /\ statusFile = << >>
    /\ last = Call("configure", clock, TRUE, << >>, << >>)
    /\ generated = << >>
    /\ failures = 0
    /\ pc = [t \in Threads |-> "idle"]
    /\ loc = [t \in Threads |-> NoLocals]
    /\ lockOwner = 0
    /\ lockCount = 0
    /\ seen = [torn |-> FALSE, tornLocked |-> FALSE]
    /\ identity = NoIdentity
    /\ idMade = 0
    /\ idBits = 2048
    /\ held = [t \in Threads |-> 0]
    /\ nickname = 1
    /\ objs = ScanObjs(NoDirs)
    /\ tlsContext = None
    /\ tlsContextExpires = -1
    /\ certFile = 0
    /\ serverContext = None
    /\ contexts = 0

config == << lifetime, keyOverlap >>

\* ------------------------------------------------------------------ actions
\* Time passes.
Tick ==
    /\ \E c \in ClockValues : c > clock /\ clock' = c
    /\ last' = Call("tick", clock', TRUE, << >>, << >>)
    /\ generated' = << >>
    /\ UNCHANGED << config, disk, keySets, keyRange, currentKeys, nextUpdate,
                    handlerKeys, statusFile, failures >>
    /\ UNCHANGED << tvars, xvars, ivars, objs >>

\* ServerKeyring.checkKeys()
CheckKeys ==
    /\ keySets' = checkKeys(disk).keySets
    /\ disk' = checkKeys(disk).disk
    /\ keyRange' = checkKeys(disk).keyRange
    /\ objs' = ScanObjs(disk)
    /\ last' = Call("checkKeys", clock, TRUE, << >>, << >>)
    /\ generated' = << >>
    /\ UNCHANGED << clock, config, currentKeys, nextUpdate, handlerKeys, statusFile, failures >>
    /\ UNCHANGED << tvars, xvars, ivars >>

\* The key numbers a createKeys(num) call may take stay within the bound.
RoomFor(num) ==
    (IF keyRange[1] = MaxInt THEN 0 ELSE keyRange[2]) + num <= MaxKeyNum

\* The effect of createKeys(num) on the keyring: the generation loop, then,
\* unless a build raised, the rescan.
DoCreateKeys(op, num, failAt) ==
    LET g == createKeys(num, keySets, keyRange, disk, clock, lifetime, failAt)
    IN  /\ generated' = g.gen
        /\ last' = Call(op, clock, g.ok, << >>, << >>)
        /\ failures' = IF g.ok THEN failures ELSE failures + 1
        /\ IF g.ok
           THEN /\ keySets' = checkKeys(g.disk).keySets
                /\ disk' = checkKeys(g.disk).disk
                /\ keyRange' = checkKeys(g.disk).keyRange
                /\ objs' = ScanObjs(g.disk)
           ELSE /\ disk' = g.disk
                /\ UNCHANGED << keySets, keyRange, objs >>

\* ServerKeyring.createKeysAsNeeded(now), now being the current time; it
\* calls createKeys(num=nKeys).  A descriptor build that raises is the first
\* of its call (failAt = 1): what makes the build raise, no address to
\* publish, is the same in every round of the loop.
CreateKeysAsNeeded ==
    /\ IF ~NeedsKeys(keySets, clock)
       THEN /\ last' = Call("createKeysAsNeeded", clock, TRUE, << >>, << >>)
            /\ generated' = << >>
            /\ UNCHANGED << disk, keySets, keyRange, failures, objs, identity, idMade >>
       ELSE LET nKeys == nKeysNeeded(keySets, clock, lifetime)
            IN  \E failAt \in {0, 1} :
                   /\ RoomFor(nKeys)
                   /\ failAt # 0 => failures < MaxFail
                   /\ DoCreateKeys("createKeysAsNeeded", nKeys, failAt)
                   /\ UseIdentityKey
    /\ UNCHANGED << clock, config, currentKeys, nextUpdate, handlerKeys, statusFile >>
    /\ UNCHANGED << tvars, xvars, idBits, held >>

\* ServerKeyring.removeDeadKeys(now)
RemoveDeadKeys ==
    LET s1 == checkKeys(disk)
        dead == getDeadKeys(s1.keySets, clock, keyOverlap)
        s2 == checkKeys(DeleteDirs(s1.disk, Names(dead)))
    IN  /\ keySets' = s2.keySets
        /\ disk' = s2.disk
        /\ keyRange' = s2.keyRange
        /\ objs' = ScanObjs(s2.disk)
        /\ last' = Call("removeDeadKeys", clock, TRUE, << >>, dead)
        /\ generated' = << >>
        /\ UNCHANGED << clock, config, currentKeys, nextUpdate, handlerKeys, statusFile, failures >>
        /\ UNCHANGED << tvars, xvars, ivars >>

\* ServerKeyring.getServerKeysets(now)
GetServerKeysets ==
    /\ last' = Call("getServerKeysets", clock, TRUE,
                    getServerKeysets(keySets, clock, keyOverlap), << >>)
    /\ generated' = << >>
    /\ UNCHANGED << clock, config, disk, keySets, keyRange, currentKeys, nextUpdate,
                    handlerKeys, statusFile, failures >>
    /\ UNCHANGED << tvars, xvars, ivars, objs >>

SeqNames(ks) == [i \in 1..Len(ks) |-> ks[i][3]]

\* (mutant: no second scan after the dead keysets are deleted)
updateKeys_NoRescan(d, when, overlap) ==
    LET s1 == checkKeys(d)
        dead == getDeadKeys(s1.keySets, when, overlap)
        keys == getServerKeysets(s1.keySets, when, overlap)
    IN  [ keys |-> keys, dead |-> dead,
          keySets |-> s1.keySets,
          disk |-> DeleteDirs(s1.disk, Names(dead)),
          keyRange |-> s1.keyRange,
          nextUpdate |-> getNextKeyRotation(s1.keySets, keys, overlap) ]

\* updateKeys(when) on the key directory d: the scan, the dead and the live
\* keysets as of 'when', the dead ones deleted and, if there were any, the
\* second scan; then the next rotation from the live keysets.
updateKeys(d, when, overlap) ==
    LET s1 == checkKeys(d)
        dead == getDeadKeys(s1.keySets, when, overlap)
        keys == getServerKeysets(s1.keySets, when, overlap)
        d2 == DeleteDirs(s1.disk, Names(dead))
        s2 == IF dead # << >> THEN checkKeys(d2)
              ELSE [keySets |-> s1.keySets, disk |-> d2, keyRange |-> s1.keyRange]
    IN  [ keys |-> keys, dead |-> dead,
          keySets |-> s2.keySets, disk |-> s2.disk, keyRange |-> s2.keyRange,
          nextUpdate |-> getNextKeyRotation(s2.keySets, keys, overlap) ]

\* ServerKeyring.updateKeys(packetHandler, statusFile, when), as the server
\* calls it: with its packet handler, its status file and the current time.
UpdateKeys ==
       LET r == updateKeys(disk, clock, keyOverlap)
       IN  /\ currentKeys' = [set |-> TRUE, keys |-> r.keys]
           /\ handlerKeys' = SeqNames(r.keys)
           /\ statusFile' = SeqNames(r.keys)
           /\ keySets' = r.keySets
           /\ disk' = r.disk
           /\ keyRange' = r.keyRange
           /\ objs' = ScanObjs(r.disk)
           /\ nextUpdate' = r.nextUpdate
           /\ last' = Call("updateKeys", clock, TRUE, r.keys, r.dead)
           /\ generated' = << >>
           /\ UNCHANGED << clock, config, failures >>
           /\ UNCHANGED << tvars, xvars, ivars >>

Next ==
    \/ Tick
    \/ CheckKeys
    \/ CreateKeysAsNeeded
    \/ RemoveDeadKeys
    \/ GetServerKeysets
    \/ UpdateKeys

Spec == Init /\ [][Next]_vars


\* ======================================================= threads and the lock
\* The keyring is shared by the server's threads.  self._lock is a
\* threading.RLock; ServerKeyring.lock() and unlock() hand it to callers and
\* only getCurrentDescriptor acquires it itself.  Below, updateKeys and
\* checkKeys are taken one statement group at a time, so that calls made by
\* two threads interleave wherever the lock does not keep them apart.

\* (mutant: a lock that never makes anyone wait)
CanAcquire_Always(t) == TRUE

\* threading.RLock.acquire(): free, or already held by the caller.
CanAcquire(t) == lockOwner = 0 \/ lockOwner = t

Acquire(t) ==
    /\ CanAcquire(t)
    /\ lockOwner' = t
    /\ lockCount' = lockCount + 1

Release(t) ==
    /\ lockCount' = lockCount - 1
    /\ lockOwner' = IF lockCount = 1 THEN 0 ELSE lockOwner

AllIdle == \A t \in Threads : pc[t] = "idle"

\* A thread inside updateKeys.
InUpdate(t) ==
    pc[t] \in {"uk_clear", "uk_fill", "uk_compute", "uk_push", "uk_status",
               "uk_delete", "uk_rotation"}

\* (mutant: the dead keysets deleted before the packet handler is told)
UkNextPc_DeleteFirst(p, hasDead) ==
    CASE p = "uk_compute" -> "uk_delete"
      [] p = "uk_delete" -> "uk_push"
      [] p = "uk_push" -> "uk_status"
      [] p = "uk_status" -> IF hasDead THEN "uk_clear" ELSE "uk_rotation"
      [] OTHER -> "idle"

\* The statement group that follows p in updateKeys.
UkNextPc(p, hasDead) ==
    CASE p = "uk_compute" -> "uk_push"
      [] p = "uk_push" -> "uk_status"
      [] p = "uk_status" -> "uk_delete"
      [] p = "uk_delete" -> IF hasDead THEN "uk_clear" ELSE "uk_rotation"
      [] OTHER -> "idle"

\* A caller starts updateKeys(packetHandler, statusFile, when=now), either
\* as it is or inside keyring.lock() ... keyring.unlock().
UkCall(t) ==
    /\ pc[t] = "idle"
    /\ \E bracket \in BOOLEAN :
          /\ loc' = [loc EXCEPT ![t] = Locals(clock, bracket, << >>, << >>, 1, << >>, << >>)]
          /\ pc' = [pc EXCEPT ![t] = IF bracket THEN "uk_lock" ELSE "uk_clear"]
    /\ UNCHANGED << xvars, ivars, objs, clock, config, disk, keySets, keyRange, currentKeys, nextUpdate,
                    handlerKeys, statusFile, last, generated, failures,
                    lockOwner, lockCount, seen >>

\* keyring.lock() returns.
UkLock(t) ==
    /\ pc[t] = "uk_lock"
    /\ Acquire(t)
    /\ pc' = [pc EXCEPT ![t] = "uk_clear"]
    /\ UNCHANGED << xvars, ivars, objs, clock, config, disk, keySets, keyRange, currentKeys, nextUpdate,
                    handlerKeys, statusFile, last, generated, failures, loc, seen >>

\* checkKeys: self.keySets = []
UkScanClear(t) ==
    /\ pc[t] = "uk_clear"
    /\ keySets' = << >>
    /\ objs' = ScanObjs(NoDirs)
    /\ pc' = [pc EXCEPT ![t] = "uk_fill"]
    /\ UNCHANGED << xvars, ivars, clock, config, disk, keyRange, currentKeys, nextUpdate,
                    handlerKeys, statusFile, last, generated, failures,
                    loc, lockOwner, lockCount, seen >>

\* checkKeys: the walk over the key directory, the removal of the bad
\* keysets, the sort and the key range.
UkScanFill(t) ==
    /\ pc[t] = "uk_fill"
    /\ keySets' = checkKeys(disk).keySets
    /\ disk' = checkKeys(disk).disk
    /\ keyRange' = checkKeys(disk).keyRange
    /\ objs' = ScanObjs(disk)
    /\ loc' = [loc EXCEPT ![t].steps =
                  Append(@, IF loc[t].phase = 1 THEN "scan" ELSE "rescan")]
    /\ pc' = [pc EXCEPT ![t] = IF loc[t].phase = 1 THEN "uk_compute" ELSE "uk_rotation"]
    /\ UNCHANGED << xvars, ivars, clock, config, currentKeys, nextUpdate, handlerKeys, statusFile,
                    last, generated, failures, lockOwner, lockCount, seen >>

\* The call ends, with an exception (ok = FALSE) or by returning, and its
\* locals are gone.  A caller that took the lock releases it either way.
UkEnd(t, ok) ==
    /\ pc' = [pc EXCEPT ![t] = "idle"]
    /\ loc' = [loc EXCEPT ![t] = NoLocals]
    /\ last' = Call("updateKeys", loc[t].when, ok, loc[t].keys, loc[t].dead)
    /\ IF loc[t].bracket THEN Release(t) ELSE UNCHANGED << lockOwner, lockCount >>

\* deadKeys = self.getDeadKeys(when)
\* self.currentKeys = keys = self.getServerKeysets(when)
\* Loading a keyset whose directory is gone raises.
UkCompute(t) ==
    /\ pc[t] = "uk_compute"
    /\ LET dead == getDeadKeys(keySets, loc[t].when, keyOverlap)
           keys == getServerKeysets(keySets, loc[t].when, keyOverlap)
       IN  IF Names(keys) \subseteq DOMAIN disk
           THEN /\ loc' = [loc EXCEPT ![t].dead = dead, ![t].keys = keys,
                                      ![t].steps = Append(@, "compute")]
                /\ currentKeys' = [set |-> TRUE, keys |-> keys]
                /\ pc' = [pc EXCEPT ![t] = UkNextPc("uk_compute", dead # << >>)]
                /\ UNCHANGED << last, lockOwner, lockCount >>
           ELSE /\ UkEnd(t, FALSE)
                /\ UNCHANGED currentKeys
    /\ UNCHANGED << xvars, ivars, objs, clock, config, disk, keySets, keyRange, nextUpdate, handlerKeys,
                    statusFile, generated, failures, seen >>

\* packetHandler.setKeys(packetKeys, hashLogs)
UkPush(t) ==
    /\ pc[t] = "uk_push"
    /\ handlerKeys' = SeqNames(loc[t].keys)
    /\ loc' = [loc EXCEPT ![t].pushed = SeqNames(loc[t].keys),
                          ![t].steps = Append(@, "push")]
    /\ pc' = [pc EXCEPT ![t] = UkNextPc("uk_push", loc[t].dead # << >>)]
    /\ UNCHANGED << xvars, ivars, objs, clock, config, disk, keySets, keyRange, currentKeys, nextUpdate,
                    statusFile, last, generated, failures, lockOwner, lockCount, seen >>

\* writeFile(statusFile, ...)
UkStatus(t) ==
    /\ pc[t] = "uk_status"
    /\ statusFile' = SeqNames(loc[t].keys)
    /\ loc' = [loc EXCEPT ![t].steps = Append(@, "status")]
    /\ pc' = [pc EXCEPT ![t] = UkNextPc("uk_status", loc[t].dead # << >>)]
    /\ UNCHANGED << xvars, ivars, objs, clock, config, disk, keySets, keyRange, currentKeys, nextUpdate,
                    handlerKeys, last, generated, failures, lockOwner, lockCount, seen >>

\* for msg, ks in deadKeys: ks.delete()
\* Deleting a keyset whose directory is already gone raises (os.rmdir).
UkDelete(t) ==
    /\ pc[t] = "uk_delete"
    /\ LET dead == loc[t].dead
           gone == { i \in 1..Len(dead) : dead[i][3] \notin DOMAIN disk }
           upto == IF gone = {} THEN Len(dead) ELSE SetMin(gone) - 1
       IN  /\ disk' = DeleteDirs(disk, { dead[i][3] : i \in 1..upto })
           /\ IF gone = {}
              THEN /\ loc' = [loc EXCEPT ![t].steps = Append(@, "delete"), ![t].phase = 2]
                   /\ pc' = [pc EXCEPT ![t] = UkNextPc("uk_delete", dead # << >>)]
                   /\ UNCHANGED << last, lockOwner, lockCount >>
              ELSE UkEnd(t, FALSE)
    /\ UNCHANGED << xvars, ivars, objs, clock, config, keySets, keyRange, currentKeys, nextUpdate,
                    handlerKeys, statusFile, generated, failures, seen >>

\* self.nextUpdate = None; self.getNextKeyRotation(keys); return
UkRotation(t) ==
    /\ pc[t] = "uk_rotation"
    /\ nextUpdate' = getNextKeyRotation(keySets, loc[t].keys, keyOverlap)
    /\ UkEnd(t, TRUE)
    /\ UNCHANGED << xvars, ivars, objs, clock, config, disk, keySets, keyRange, currentKeys, handlerKeys,
                    statusFile, generated, failures, seen >>

\* ServerKeyring.getCurrentDescriptor(now): the call starts ...
GdCall(t) ==
    /\ pc[t] = "idle"
    /\ pc' = [pc EXCEPT ![t] = "gd_lock"]
    /\ UNCHANGED << xvars, ivars, objs, clock, config, disk, keySets, keyRange, currentKeys, nextUpdate,
                    handlerKeys, statusFile, last, generated, failures,
                    loc, lockOwner, lockCount, seen >>

\* ... self._lock.acquire() returns ...
GdLock(t) ==
    /\ pc[t] = "gd_lock"
    /\ Acquire(t)
    /\ pc' = [pc EXCEPT ![t] = "gd_read"]
    /\ UNCHANGED << xvars, ivars, objs, clock, config, disk, keySets, keyRange, currentKeys, nextUpdate,
                    handlerKeys, statusFile, last, generated, failures, loc, seen >>

\* The keyset whose descriptor getCurrentDescriptor returns: the first live
\* one with va <= now <= vu, else the last live one; none when nothing is
\* live (IndexError) or a live keyset cannot be loaded.
CurrentOf(ks, d, now, overlap) ==
    LET live == getServerKeysets(ks, now, overlap)
        hits == { i \in 1..Len(live) : live[i][1] <= now /\ now <= live[i][2] }
    IN  IF live = << >> \/ ~(Names(live) \subseteq DOMAIN d) THEN << >>
        ELSE IF hits # {} THEN << live[SetMin(hits)] >>
        ELSE << live[Len(live)] >>

\* (mutant: the lock is released on the return path only)
GdExit_NoFinally(t, ok) ==
    IF ok THEN Release(t) ELSE UNCHANGED << lockOwner, lockCount >>

\* The 'finally: self._lock.release()' of getCurrentDescriptor: run when
\* the body returns (ok) and when it raises.
GdExit(t, ok) == Release(t)

\* ... it reads the vector, and the lock is released in the 'finally'.
GdRead(t) ==
    /\ pc[t] = "gd_read"
    /\ LET res == CurrentOf(keySets, disk, clock, keyOverlap)
       IN  last' = Call("getCurrentDescriptor", clock, res # << >>, res, << >>)
    /\ seen' = [torn |-> \E u \in Threads \ {t} :
                            pc[u] = "uk_fill" \/ (pc[u] = "uk_clear" /\ loc[u].phase = 2),
                tornLocked |-> \E u \in Threads \ {t} :
                            /\ loc[u].bracket
                            /\ pc[u] = "uk_fill" \/ (pc[u] = "uk_clear" /\ loc[u].phase = 2)]
    /\ GdExit(t, CurrentOf(keySets, disk, clock, keyOverlap) # << >>)
    /\ pc' = [pc EXCEPT ![t] = "idle"]
    /\ UNCHANGED << xvars, ivars, objs, clock, config, disk, keySets, keyRange, currentKeys, nextUpdate,
                    handlerKeys, statusFile, generated, failures, loc >>

\* Between the threads' calls time passes and keys are generated.
QuietTick == AllIdle /\ Tick /\ clock' % Day = 43200

QuietCreateKeys == AllIdle /\ CreateKeysAsNeeded /\ last'.ok

\* The threaded runs start from a keyring configured with a lifetime of
\* 8 days less 25 seconds and a 6-hour overlap (the first keyset is dead
\* at the next clock value).
InitThreads == Init /\ lifetime = 691175 /\ clock % Day = 43200

NextThreads ==
    \/ QuietTick
    \/ QuietCreateKeys
    \/ \E t \in Threads :
          \/ UkCall(t)
          \/ UkLock(t)
          \/ UkScanClear(t)
          \/ UkScanFill(t)
          \/ UkCompute(t)
          \/ UkPush(t)
          \/ UkStatus(t)
          \/ UkDelete(t)
          \/ UkRotation(t)
          \/ GdCall(t)
          \/ GdLock(t)
          \/ GdRead(t)

SpecThreads == InitThreads /\ [][NextThreads]_vars

\* ================================================================ TLS context
\* A call of the TLS methods: like Call, with the 'force' argument.
TlsCall(op, now, ok, res, force) ==
    [op |-> op, now |-> now, ok |-> ok, res |-> res, dead |-> << >>, force |-> force]

\* What can go wrong in _newTLSContext: nothing, generateCertChain raises,
\* or TLSContext_new (or _getDHFile) raises.
TlsFailures == {"none", "chain", "context"}

\* (mutant: the expiry is not looked at)
NeedNewContext_NoExpiry(force, ctx, expires, now) == force \/ ctx = None

\* _getTLSContext: is a new context made?
NeedNewContext(force, ctx, expires, now) ==
    force \/ ctx = None \/ expires < now

\* (mutant: the fields are assigned before the context is built)
newTLSContext_AssignFirst(now, fail) ==
    [ ok      |-> fail = "none",
      ctx     |-> contexts + 1,
      expires |-> now + CERTIFICATE_LIFETIME,
      chain   |-> IF fail = "chain" THEN certFile ELSE contexts + 1,
      made    |-> contexts + 1 ]

\* _newTLSContext(now): a fresh MMTP key and its certificate chain take the
\* next number; the chain replaces the cert_chain file; the context built
\* from it and its expiry are stored.  A step that raises leaves what
\* follows it undone.
newTLSContext(now, fail) ==
    [ ok      |-> fail = "none",
      ctx     |-> IF fail = "none" THEN contexts + 1 ELSE tlsContext,
      expires |-> IF fail = "none" THEN now + CERTIFICATE_LIFETIME ELSE tlsContextExpires,
      chain   |-> IF fail = "chain" THEN certFile ELSE contexts + 1,
      made    |-> contexts + 1 ]

\* _getTLSContext(force, now)
getTLSContext(force, now, fail) ==
    IF NeedNewContext(force, tlsContext, tlsContextExpires, now)
    THEN newTLSContext(now, fail)
    ELSE [ ok |-> TRUE, ctx |-> tlsContext, expires |-> tlsContextExpires,
           chain |-> certFile, made |-> contexts ]

\* The part of the state the TLS methods leave alone.
KeyringUnchanged ==
    UNCHANGED << clock, config, disk, keySets, keyRange, currentKeys, nextUpdate,
                 handlerKeys, statusFile, failures, nickname, objs, tvars,
                 idBits, held >>

\* _newTLSContext signs the certificate chain with getIdentityKey().
TlsIdentity(force, now) ==
    IF NeedNewContext(force, tlsContext, tlsContextExpires, now)
    THEN UseIdentityKey
    ELSE UNCHANGED << identity, idMade >>

\* ServerKeyring._getTLSContext(force, now), now being the current time.
GetTLSContext ==
    \E force \in BOOLEAN : \E fail \in TlsFailures :
        LET r == getTLSContext(force, clock, fail)
        IN  /\ r.made <= MaxContexts
            /\ tlsContext' = r.ctx
            /\ tlsContextExpires' = r.expires
            /\ certFile' = r.chain
            /\ contexts' = r.made
            /\ last' = TlsCall("getTLSContext", clock, r.ok,
                               IF r.ok THEN << r.ctx >> ELSE << >>, force)
            /\ generated' = << >>
            /\ TlsIdentity(force, clock)
            /\ UNCHANGED serverContext
            /\ KeyringUnchanged

\* ServerKeyring.updateMMTPServerTLSContext(mmtpServer, force, now); it
\* returns self._tlsContextExpires.
UpdateMMTPServerTLSContext ==
    \E force \in BOOLEAN : \E fail \in TlsFailures :
        LET r == getTLSContext(force, clock, fail)
        IN  /\ r.made <= MaxContexts
            /\ tlsContext' = r.ctx
            /\ tlsContextExpires' = r.expires
            /\ certFile' = r.chain
            /\ contexts' = r.made
            /\ serverContext' = IF r.ok THEN r.ctx ELSE serverContext
            /\ last' = TlsCall("updateMMTPServerTLSContext", clock, r.ok,
                               IF r.ok THEN << r.expires >> ELSE << >>, force)
            /\ generated' = << >>
            /\ TlsIdentity(force, clock)
            /\ KeyringUnchanged

\* ServerKeyring.configure(config): the fields are reset and the key
\* directory is scanned.  The new configuration may carry another Nickname.
Configure ==
    \E nick \in Nicknames :
        /\ nickname' = nick
        /\ nextUpdate' = None
        /\ currentKeys' = [set |-> FALSE, keys |-> << >>]
        /\ tlsContext' = None
        /\ tlsContextExpires' = -1
        /\ keySets' = checkKeys(disk).keySets
        /\ disk' = checkKeys(disk).disk
        /\ keyRange' = checkKeys(disk).keyRange
        /\ objs' = ScanObjs(disk)
        /\ last' = Call("configure", clock, TRUE, << >>, << >>)
        /\ generated' = << >>
        /\ UNCHANGED << clock, config, handlerKeys, statusFile, failures,
                        certFile, serverContext, contexts, tvars, ivars >>

\* Hours after the start at which the TLS methods are called.
TlsHours == {0, 23, 24, 25, 48, 49}
TlsStart == StartDay * Day + 43200
TlsClockValues == { TlsStart + h * 3600 : h \in TlsHours }

TlsTick ==
    /\ \E c \in TlsClockValues : c > clock /\ clock' = c
    /\ last' = Call("tick", clock', TRUE, << >>, << >>)
    /\ generated' = << >>
    /\ UNCHANGED << config, disk, keySets, keyRange, currentKeys, nextUpdate,
                    handlerKeys, statusFile, failures, objs, tvars, xvars, ivars >>

InitTLS == Init /\ clock = TlsStart /\ lifetime = 30 * Day

NextTLS ==
    \/ TlsTick
    \/ GetTLSContext
    \/ UpdateMMTPServerTLSContext
    \/ Configure

SpecTLS == InitTLS /\ [][NextTLS]_vars

\* ================================================================ publication
\* A reply of the directory server to the POST of a descriptor: whether
\* urlopen / read raised, the Content-Type header, and the body, a sequence
\* of lines, each a sequence of tokens.
StatusLine(digit) == << "Status:", " ", digit >>
MessageLine == << "Message:", " ", "x" >>

ReplyBodies ==
    { << >>,
      << StatusLine("1"), MessageLine >>,
      << StatusLine("0"), MessageLine >>,
      << StatusLine("2"), MessageLine >>,
      << << "Status:", " ", "1", " ", "\t" >>, << "Message:", " " >> >>,
      << << "Status:", " ", "1", "x" >>, MessageLine >>,
      << << " ", "Status:", " ", "1" >>, MessageLine >>,
      << << "Status:", "1" >>, MessageLine >>,
      << StatusLine("1"), << "Message:", "x" >> >>,
      << StatusLine("1") >>,
      << StatusLine("1"), << "x" >>, MessageLine >>,
      << << "x" >>, StatusLine("0"), MessageLine >>,
      << StatusLine("0"), MessageLine, StatusLine("1"), MessageLine >>,
      << StatusLine("2"), MessageLine, StatusLine("1"), MessageLine >> }

ContentTypes == { "text/plain", "text/html", "text/plain; charset=utf-8", "" }

Reply(io, ctype, body) == [io |-> io, ctype |-> ctype, body |-> body]

Replies ==
    { Reply(TRUE, "", << >>) }
        \cup { Reply(FALSE, c, b) : c \in ContentTypes, b \in ReplyBodies }

\* The replies publishKeys is tried with: one for each outcome.
PlainReplies ==
    { Reply(TRUE, "", << >>),
      Reply(FALSE, "text/plain", << StatusLine("1"), MessageLine >>),
      Reply(FALSE, "text/plain", << StatusLine("0"), MessageLine >>) }

\* DIRECTORY_RESPONSE_RE = ^Status: (0|1)[ \t]*\nMessage: (.*)$  (re.M)
IsStatusLine(l) ==
    /\ Len(l) >= 3
    /\ l[1] = "Status:" /\ l[2] = " " /\ l[3] \in {"0", "1"}
    /\ \A k \in 4..Len(l) : l[k] \in {" ", "\t"}

IsMessageLine(l) == Len(l) >= 2 /\ l[1] = "Message:" /\ l[2] = " "

\* The lines at which DIRECTORY_RESPONSE_RE matches.
Matches(body) ==
    { i \in 1..(Len(body) - 1) : IsStatusLine(body[i]) /\ IsMessageLine(body[i + 1]) }

\* (mutant: the Content-Type is not looked at)
publishStatus_AnyType(reply) ==
    IF reply.io THEN "error"
    ELSE IF Matches(reply.body) = {} THEN "error"
    ELSE IF reply.body[SetMin(Matches(reply.body))][3] = "0" THEN "reject"
    ELSE "accept"

\* What ServerKeyset.publish returns for a reply; search() takes the first
\* match.
publishStatus(reply) ==
    IF reply.io THEN "error"
    ELSE IF reply.ctype # "text/plain" THEN "error"
    ELSE IF Matches(reply.body) = {} THEN "error"
    ELSE IF reply.body[SetMin(Matches(reply.body))][3] = "0" THEN "reject"
    ELSE "accept"

\* (mutant: anything the directory answered counts as published)
MarksPublished_Answered(status) == status # "error"

\* ServerKeyset.publish calls markAsPublished only before returning 'accept'.
MarksPublished(status) == status = "accept"

\* markAsPublished / markAsUnpublished: the file and the object's flag.
MarkDir(d, n, flag) == [d EXCEPT ![n].published = flag]
MarkObj(o, n, flag) == [o EXCEPT ![n].published = flag]

\* A finished publication call.
PubCall(op, now, ok, res, names, reply, allKeys, result) ==
    [op |-> op, now |-> now, ok |-> ok, res |-> res, dead |-> << >>,
     names |-> names, reply |-> reply, allKeys |-> allKeys, result |-> result]

\* What the publication methods leave alone.
PublishUnchanged ==
    UNCHANGED << clock, config, keySets, keyRange, currentKeys, nextUpdate,
                 handlerKeys, statusFile, failures, tvars, xvars, ivars >>

\* ServerKeyset.publish(url) on keyset n of the keyring, the directory
\* answering with reply.
PublishOne(n, reply) ==
    /\ n \in DOMAIN disk /\ disk[n].hasDesc
    /\ LET status == publishStatus(reply)
       IN  /\ disk' = IF MarksPublished(status) THEN MarkDir(disk, n, TRUE) ELSE disk
           /\ objs' = IF MarksPublished(status) THEN MarkObj(objs, n, TRUE) ELSE objs
           /\ last' = PubCall("publish", clock, TRUE, << status >>, << n >>,
                              reply, FALSE, None)
    /\ generated' = << >>
    /\ PublishUnchanged

\* ServerKeyset.publish(url), whatever the directory answers.
Publish == \E n \in DOMAIN objs : \E reply \in Replies : PublishOne(n, reply)

\* ServerKeyset.publish(url), the directory answering plainly.
PublishPlain == \E n \in DOMAIN objs : \E reply \in PlainReplies : PublishOne(n, reply)

\* (mutant: the loop gives up at a rejection too)
GivesUp_OnReject(status) == status \in {"error", "reject"}

\* publishKeys returns at once when a publication ends in 'error'.
GivesUp(status) == status = "error"

\* The loop of publishKeys from its i-th keyset on.
RECURSIVE PublishLoop(_, _, _, _, _, _, _)
PublishLoop(i, todo, replies, d, o, res, rejected) ==
    IF i > Len(todo)
    THEN [disk |-> d, objs |-> o, res |-> res, result |-> IF rejected = 0 THEN 1 ELSE 0]
    ELSE LET n == todo[i]
             status == publishStatus(replies[i])
             d2 == IF MarksPublished(status) THEN MarkDir(d, n, TRUE) ELSE d
             o2 == IF MarksPublished(status) THEN MarkObj(o, n, TRUE) ELSE o
         IN  IF GivesUp(status)
             THEN [disk |-> d2, objs |-> o2, res |-> Append(res, status), result |-> 0]
             ELSE PublishLoop(i + 1, todo, replies, d2, o2, Append(res, status),
                              IF status = "reject" THEN rejected + 1 ELSE rejected)

\* The keysets publishKeys(allKeys) sends, in the keyring's order.
ToPublish(ks, o, allKeys) ==
    LET Unpublished(n) == ~o[n].published
    IN  IF allKeys THEN SeqNames(ks) ELSE SelectSeq(SeqNames(ks), Unpublished)

\* ServerKeyring.publishKeys(allKeys); it returns 1, 0 or, with nothing to
\* publish, None.
PublishKeys ==
    \E allKeys \in BOOLEAN :
        LET todo == ToPublish(keySets, objs, allKeys)
        IN  /\ \A i \in 1..Len(todo) : todo[i] \in DOMAIN disk /\ disk[todo[i]].hasDesc
            /\ IF ~allKeys /\ todo = << >>
               THEN /\ last' = PubCall("publishKeys", clock, TRUE, << >>, << >>,
                                       Reply(FALSE, "", << >>), allKeys, None)
                    /\ UNCHANGED << disk, objs >>
               ELSE \E replies \in [1..Len(todo) -> PlainReplies] :
                       LET r == PublishLoop(1, todo, replies, disk, objs, << >>, 0)
                       IN  /\ disk' = r.disk
                           /\ objs' = r.objs
                           /\ last' = PubCall("publishKeys", clock, TRUE, r.res,
                                              SubSeq(todo, 1, Len(r.res)),
                                              Reply(FALSE, "", << >>), allKeys, r.result)
            /\ generated' = << >>
            /\ PublishUnchanged

\* =============================================================== regeneration
\* (mutant: the keyset is built afresh, with a new packet key)
RegenDir_FreshKey(rec, validAt, validUntil) ==
    [rec EXCEPT !.hasDesc = TRUE,
                !.key = @ + 1,
                !.va = formatDate(DescValidAfter(validAt)),
                !.vu = formatDate(validUntil),
                !.nick = nickname,
                !.parses = TRUE,
                !.signer = Signer,
                !.summary = keyOverlap]

\* generateServerDescriptorAndKeys(validAt, validUntil, useServerKeys=1) on
\* an existing key directory: the packet key is loaded, not made; validAt
\* is rounded as always and validUntil, being given, is written as it is.
RegenDir(rec, validAt, validUntil) ==
    [rec EXCEPT !.hasDesc = TRUE,
                !.va = formatDate(DescValidAfter(validAt)),
                !.vu = formatDate(validUntil),
                !.nick = nickname,
                !.parses = TRUE,
                !.signer = Signer,
                !.summary = keyOverlap]

\* ServerKeyset.getLiveness / getServerDescriptor: the object's cache,
\* filled from the descriptor on disk where it is empty.
FillCache(obj, rec) ==
    [obj EXCEPT !.serverinfo = IF @ = None THEN rec.nick ELSE @,
                !.validAfter = IF @ = None THEN getLiveness(rec)[1] ELSE @,
                !.validUntil = IF obj.validAfter = None THEN getLiveness(rec)[2] ELSE @]

\* self.serverinfo = self.validAfter = self.validUntil = None
ClearCache(obj) ==
    [obj EXCEPT !.serverinfo = None, !.validAfter = None, !.validUntil = None]

\* regenerateDescriptors: ks.regenerateServerDescriptor for the keysets of
\* the keyring in turn, from the i-th on.  failAt is the keyset whose
\* descriptor build raises (0: none does); load() raises when the packet
\* key is not on disk.
RECURSIVE RegenLoop(_, _, _, _, _, _)
RegenLoop(i, names, d, o, gen, failAt) ==
    IF i > Len(names) THEN [ok |-> TRUE, disk |-> d, objs |-> o, gen |-> gen]
    ELSE LET n == names[i]
         IN  IF n \notin DOMAIN d \/ ~checkPrivateFile(d[n])
             THEN [ok |-> FALSE, disk |-> d, objs |-> o, gen |-> gen]
             ELSE LET d1 == MarkDir(d, n, FALSE)
                      o1 == [MarkObj(o, n, FALSE) EXCEPT ![n] = FillCache(@, d[n])]
                      validAt == o1[n].validAfter
                      validUntil == o1[n].validUntil
                      rec == RegenDir(d1[n], validAt, validUntil)
                  IN  IF failAt = i
                      THEN [ok |-> FALSE, disk |-> d1, objs |-> o1, gen |-> gen]
                      ELSE RegenLoop(i + 1, names, PutDir(d1, n, rec),
                                     [o1 EXCEPT ![n] = ClearCache(@)],
                                     Append(gen, [name |-> n, at |-> validAt,
                                                  until |-> validUntil,
                                                  va |-> getLiveness(rec)[1],
                                                  vu |-> getLiveness(rec)[2]]),
                                     failAt)

\* A finished regenerateDescriptors call: the keysets it went over and those
\* of them that were published when it began.
RegenCall(now, ok, names, was) ==
    [op |-> "regenerateDescriptors", now |-> now, ok |-> ok, res |-> names,
     dead |-> << >>, was |-> was]

\* ServerKeyring.regenerateDescriptors().  As in createKeys, a descriptor
\* build that raises is the first of the call.
RegenerateDescriptors ==
    \E failAt \in {0, 1} :
        LET names == SeqNames(keySets)
            r == RegenLoop(1, names, disk, objs, << >>, failAt)
        IN  /\ failAt # 0 => failures < MaxFail
            /\ disk' = r.disk
            /\ objs' = r.objs
            /\ generated' = r.gen
            /\ failures' = IF r.ok THEN failures ELSE failures + 1
            /\ last' = RegenCall(clock, r.ok, names,
                                 { n \in DOMAIN objs : objs[n].published })
            /\ UseIdentityKey
            /\ UNCHANGED << clock, config, keySets, keyRange, currentKeys, nextUpdate,
                            handlerKeys, statusFile, tvars, xvars, idBits, held >>

\* The publication runs start from a keyring configured with a lifetime of
\* 8 days less 25 seconds, at noon.
InitPublish == Init /\ lifetime = 691175 /\ clock % Day = 43200

NextPublish ==
    \/ CreateKeysAsNeeded
    \/ CheckKeys
    \/ Configure
    \/ PublishPlain
    \/ PublishKeys
    \/ RegenerateDescriptors

SpecPublish == InitPublish /\ [][NextPublish]_vars

\* The runs that try the publication of a keyset with every reply.
NextReply ==
    \/ QuietCreateKeys
    \/ Publish

SpecReply == InitPublish /\ [][NextReply]_vars

\* ============================================================ next rotation
\* A finished getNextKeyRotation(): the time it returned, and whether the
\* value came from self.nextUpdate without being computed.
RotCall(now, res, cached) ==
    [op |-> "getNextKeyRotation", now |-> now, ok |-> TRUE, res |-> res,
     cached |-> cached]

\* The keysets getNextKeyRotation(curKeys=None) takes for the current ones:
\* self.currentKeys when updateKeys has set it, else getServerKeysets().
CurKeys(cks, ks, now, overlap) ==
    IF cks.set THEN cks.keys ELSE getServerKeysets(ks, now, overlap)

\* ServerKeyring.getNextKeyRotation(), as the server's scheduler calls it.
GetNextKeyRotation ==
    LET res == IF nextUpdate = None
               THEN getNextKeyRotation(keySets,
                        CurKeys(currentKeys, keySets, clock, keyOverlap), keyOverlap)
               ELSE nextUpdate
    IN  /\ nextUpdate' = res
        /\ last' = RotCall(clock, res, nextUpdate # None)
        /\ generated' = << >>
        /\ UNCHANGED << clock, config, disk, keySets, keyRange, currentKeys,
                        handlerKeys, statusFile, failures >>
        /\ UNCHANGED << tvars, xvars, ivars, objs >>

\* configure(config) with a configuration that names the server as before.
Reconfigure == Configure /\ nickname' = nickname

NextRotation ==
    \/ Tick
    \/ CheckKeys
    \/ QuietCreateKeys
    \/ RemoveDeadKeys
    \/ UpdateKeys
    \/ Reconfigure
    \/ GetNextKeyRotation

\* The rotation runs start from a keyring configured with a lifetime of
\* 8 days less 25 seconds.
InitRotation == Init /\ lifetime = 691175 /\ clock % Day = 43200

SpecRotation == InitRotation /\ [][NextRotation]_vars

\* ================================================== damaged key directories
\* What may have happened to a key directory behind the server's back:
\* mix.key removed, mix.key made readable by others, ServerDesc removed,
\* ServerDesc garbled.
DamageKinds == {"nokey", "openkey", "nodesc", "baddesc"}

Intact(rec) == rec.hasKey /\ rec.private /\ rec.hasDesc /\ rec.parses

Damaged(rec, kind) ==
    CASE kind = "nokey" -> [rec EXCEPT !.hasKey = FALSE]
      [] kind = "openkey" -> [rec EXCEPT !.private = FALSE]
      [] kind = "nodesc" -> [rec EXCEPT !.hasDesc = FALSE]
      [] kind = "baddesc" -> [rec EXCEPT !.parses = FALSE]

\* An intact key directory is damaged; the keyring is not told.
Damage ==
    \E n \in DOMAIN disk : \E kind \in DamageKinds :
        /\ Intact(disk[n])
        /\ disk' = [disk EXCEPT ![n] = Damaged(@, kind)]
        /\ last' = Call("damage", clock, TRUE, << >>, << >>)
        /\ generated' = << >>
        /\ UNCHANGED << clock, config, keySets, keyRange, currentKeys, nextUpdate,
                        handlerKeys, statusFile, failures, objs, tvars, xvars, ivars >>

\* The scanning runs start from a keyring configured with a lifetime of
\* 8 days less 25 seconds, at noon.
InitScan == Init /\ lifetime = 691175 /\ clock % Day = 43200

NextScan ==
    \/ CreateKeysAsNeeded
    \/ Damage
    \/ CheckKeys

SpecScan == InitScan /\ [][NextScan]_vars

\* =============================================================== identity key
\* The values of Server/IdentityKeyBits the runs configure.
IdBitsValues == {2048, 4096}

\* ServerKeyring.configure(config) with a configuration that may differ in
\* Nickname, IdentityKeyBits, PublicKeyLifetime and PublicKeyOverlap: the
\* fields are reset and the key directory is scanned, as in Configure.
ConfigureServer ==
    \E nick \in Nicknames : \E bits \in IdBitsValues : \E cfg \in Configs :
        /\ nickname' = nick
        /\ idBits' = bits
        /\ lifetime' = cfg[1]
        /\ keyOverlap' = cfg[2]
        /\ nextUpdate' = None
        /\ currentKeys' = [set |-> FALSE, keys |-> << >>]
        /\ tlsContext' = None
        /\ tlsContextExpires' = -1
        /\ keySets' = checkKeys(disk).keySets
        /\ disk' = checkKeys(disk).disk
        /\ keyRange' = checkKeys(disk).keyRange
        /\ objs' = ScanObjs(disk)
        /\ last' = Call("configure", clock, TRUE, << >>, << >>)
        /\ generated' = << >>
        /\ UNCHANGED << clock, handlerKeys, statusFile, failures, certFile,
                        serverContext, contexts, tvars, identity, idMade, held >>

\* configure with a configuration that differs in IdentityKeyBits only.
ConfigureBits == ConfigureServer /\ nickname' = nickname /\ config' = config

\* ServerKeyring.removeIdentityKey(): the file identity.key is deleted, if
\* it is there.
RemoveIdentityKey ==
    /\ idMade < MaxIdentities
    /\ identity' = NoIdentity
    /\ last' = Call("removeIdentityKey", clock, TRUE, << >>, << >>)
    /\ generated' = << >>
    /\ UNCHANGED << clock, config, disk, keySets, keyRange, currentKeys, nextUpdate,
                    handlerKeys, statusFile, failures, objs, tvars, xvars,
                    idMade, idBits, held >>

\* _getTLSContext calls that return a context.
RefreshTLS == GetTLSContext /\ last'.ok

InitIdentity == Init /\ lifetime = 691175 /\ clock % Day = 43200

NextIdentity ==
    \/ CreateKeysAsNeeded
    \/ RegenerateDescriptors
    \/ RefreshTLS
    \/ ConfigureBits
    \/ RemoveIdentityKey

SpecIdentity == InitIdentity /\ [][NextIdentity]_vars

\* ================================================================ keyring lock
\* ServerKeyring.lock(): a thread that is not inside a keyring method takes
\* the keyring's lock (it waits while another thread holds it).
KrLock(t) ==
    /\ pc[t] = "idle"
    /\ held[t] < MaxHold
    /\ Acquire(t)
    /\ held' = [held EXCEPT ![t] = @ + 1]
    /\ last' = Call("lock", clock, TRUE, << >>, << >>)
    /\ UNCHANGED << xvars, objs, clock, config, disk, keySets, keyRange, currentKeys,
                    nextUpdate, handlerKeys, statusFile, generated, failures,
                    pc, loc, seen, identity, idMade, idBits >>

\* ServerKeyring.unlock(), by a thread that has called lock().
KrUnlock(t) ==
    /\ pc[t] = "idle"
    /\ held[t] > 0
    /\ Release(t)
    /\ held' = [held EXCEPT ![t] = @ - 1]
    /\ last' = Call("unlock", clock, TRUE, << >>, << >>)
    /\ UNCHANGED << xvars, objs, clock, config, disk, keySets, keyRange, currentKeys,
                    nextUpdate, handlerKeys, statusFile, generated, failures,
                    pc, loc, seen, identity, idMade, idBits >>

\* The number of times thread t holds the lock.
Holds(t) == IF lockOwner = t THEN lockCount ELSE 0

NextLock ==
    \/ QuietTick
    \/ QuietCreateKeys
    \/ \E t \in Threads :
          \/ KrLock(t)
          \/ KrUnlock(t)
          \/ GdCall(t)
          \/ GdLock(t)
          \/ GdRead(t)

SpecLock == InitThreads /\ [][NextLock]_vars

\* ===================================================== configuration validation
\* Values of IdentityKeyBits, PublicKeyLifetime and PublicKeyOverlap (in
\* seconds) found in the configuration files handed to ServerConfig: each
\* limit, the values next to it on both sides (23h59m = 86340 s,
\* 5h59m = 21540 s) and values well inside and outside.
CandidateBits == {1024, 2047, 2048, 3072, 4096, 4097}
CandidateLifetimes == {3600, 86340, 86399, 86400, 86401, 30 * Day}
CandidateOverlaps == {0, 21540, 21599, 21600, 21601, 86400, 259199, 259200, 259201}

\* (mutant: the lower limit of the overlap is excluded)
validate_Strict(bits, keyLifetime, overlap) ==
    IF ~(2048 <= bits /\ bits <= 4096) THEN "ConfigError"
    ELSE IF keyLifetime < 24 * 60 * 60 THEN "ConfigError"
    ELSE IF overlap <= 6 * 60 * 60 THEN "ConfigError"
    ELSE IF overlap > 72 * 60 * 60 THEN "ConfigError"
    ELSE "none"

\* ServerConfig.validate, the [Server] checks on IdentityKeyBits,
\* PublicKeyLifetime and PublicKeyOverlap, in the order of the code: the
\* exception raised, "none" when they all pass.
validate(bits, keyLifetime, overlap) ==
    IF ~(2048 <= bits /\ bits <= 4096) THEN "ConfigError"
    ELSE IF keyLifetime < 24 * 60 * 60 THEN "ConfigError"
    ELSE IF overlap < 6 * 60 * 60 THEN "ConfigError"
    ELSE IF overlap > 72 * 60 * 60 THEN "ConfigError"
    ELSE "none"

\* A finished ServerConfig(fname) call: the three values of the file and
\* the exception raised.
ValidateCall(now, bits, keyLifetime, overlap, raised) ==
    [op |-> "validate", now |-> now, ok |-> raised = "none",
     res |-> << bits, keyLifetime, overlap >>, dead |-> << >>, raised |-> raised]

\* ServerConfig(fname) on a configuration file whose other entries are
\* valid.  The running keyring is not touched.
Validate ==
    \E bits \in CandidateBits : \E keyLifetime \in CandidateLifetimes :
    \E overlap \in CandidateOverlaps :
        /\ last' = ValidateCall(clock, bits, keyLifetime, overlap,
                                validate(bits, keyLifetime, overlap))
        /\ UNCHANGED << clock, config, disk, keySets, keyRange, currentKeys, nextUpdate,
                        handlerKeys, statusFile, generated, failures, objs,
                        tvars, xvars, ivars >>

InitValidate == Init /\ lifetime = 30 * Day /\ clock % Day = 43200

NextValidate == Validate

SpecValidate == InitValidate /\ [][NextValidate]_vars

\* ====================================================== failed key generation
\* createKeysAsNeeded(now) when keys are needed and the descriptor build of
\* one of the rounds of createKeys raises (no address to publish, the
\* descriptor cannot be written): any round may be the one.
CreateKeysFailing ==
    /\ NeedsKeys(keySets, clock)
    /\ LET nKeys == nKeysNeeded(keySets, clock, lifetime)
       IN  \E failAt \in 1..nKeys :
              /\ RoomFor(nKeys)
              /\ failures < MaxRetry
              /\ DoCreateKeys("createKeysAsNeeded", nKeys, failAt)
              /\ UseIdentityKey
    /\ UNCHANGED << clock, config, currentKeys, nextUpdate, handlerKeys, statusFile >>
    /\ UNCHANGED << tvars, xvars, idBits, held >>

InitFail == Init /\ lifetime = 691175 /\ clock % Day = 43200

NextFail ==
    \/ QuietCreateKeys
    \/ CreateKeysFailing
    \/ CheckKeys
    \/ QuietTick

SpecFail == InitFail /\ [][NextFail]_vars

\* ======================================================== descriptor consistency
\* _WarnWrapper: the counters of the warnings of one check.
NoWarnings == [errors |-> 0, called |-> 0]

\* _WarnWrapper.__call__
warn(w) == [errors |-> w.errors + 1, called |-> 1]

\* (mutant: the warning stays counted)
forgive_Never(w, n) == w

\* 'warn.errors -= n  # We can't do anything about this!'
forgive(w, n) == [w EXCEPT !.errors = @ - n]

\* checkDescriptorConsistency(info, config): info is the descriptor of a
\* key directory; of the configuration, the Nickname, IdentityKeyBits,
\* PublicKeyLifetime and the configuration summary (of the entries that go
\* into it, PublicKeyOverlap is the one that varies here) are compared, in
\* the order of the code.  The Nickname stands for every entry whose
\* mismatch is warned about and left counted (contact, comments, port,
\* hostname, ...); those are the same in all configurations examined.
checkDescriptorConsistency(info, nick, bits, keyLifetime, summary) ==
    LET w1 == IF info.nick # nick THEN warn(NoWarnings) ELSE NoWarnings
        w2 == IF info.signer.bits # bits THEN forgive(warn(w1), 1) ELSE w1
        w3 == IF previousMidnight(parseDate(info.vu))
                    # previousMidnight(keyLifetime + parseDate(info.va))
              THEN forgive(warn(warn(w2)), 2) ELSE w2
        w4 == IF w3.errors = 0 /\ info.summary # summary THEN warn(w3) ELSE w3
    IN  IF w4.errors # 0 THEN "bad"
        ELSE IF w4.called # 0 THEN "so-so"
        ELSE "good"

\* ServerKeyset.checkConsistency(config) of the keyset named n.
checkConsistency(d, n) ==
    checkDescriptorConsistency(d[n], nickname, idBits, lifetime, keyOverlap)

\* The names in the sequence 'names' whose verdict is in 'which', in order.
RECURSIVE SelectNames(_, _, _)
SelectNames(names, verdict, which) ==
    IF names = << >> THEN << >>
    ELSE IF verdict[Head(names)] \in which
         THEN << Head(names) >> \o SelectNames(Tail(names), verdict, which)
         ELSE SelectNames(Tail(names), verdict, which)

\* (mutant: the 'so-so' keysets are regenerated too)
ToRegenerate_NotGood(names, verdict) == SelectNames(names, verdict, {"bad", "so-so"})

\* 'if regen and ok == 'bad'': the keysets that are regenerated, in order.
ToRegenerate(names, verdict) == SelectNames(names, verdict, {"bad"})

\* A finished ServerKeyring.checkDescriptorConsistency call: the keysets it
\* went over and the verdict on each.
ConsistencyCall(now, ok, names, verdict) ==
    [op |-> "checkDescriptorConsistency", now |-> now, ok |-> ok, res |-> names,
     dead |-> << >>, verdict |-> verdict]

\* ServerKeyring.checkDescriptorConsistency(regen=1): every keyset is
\* checked; those that are not 'good' are reported (getLiveness fills their
\* cache) and the 'bad' ones are regenerated, with the identity key fetched
\* when the first of them is met.  The key directories of the keyring are
\* on disk.
CheckDescriptorConsistency ==
    \E failAt \in {0, 1} :
        LET names == SeqNames(keySets)
            verdict == [n \in Names(keySets) |-> checkConsistency(disk, n)]
            bad == ToRegenerate(names, verdict)
            reported == { n \in Names(keySets) : verdict[n] # "good" }
            o1 == [n \in DOMAIN objs |->
                     IF n \in reported /\ n \in DOMAIN disk
                     THEN FillCache(objs[n], disk[n]) ELSE objs[n]]
            r == RegenLoop(1, bad, disk, o1, << >>, failAt)
        IN  /\ Names(keySets) \subseteq DOMAIN disk
            /\ failAt # 0 => (failures < MaxFail /\ bad # << >>)
            /\ disk' = r.disk
            /\ objs' = r.objs
            /\ generated' = r.gen
            /\ failures' = IF r.ok THEN failures ELSE failures + 1
            /\ last' = ConsistencyCall(clock, r.ok, names, verdict)
            /\ IF bad # << >> THEN UseIdentityKey ELSE UNCHANGED << identity, idMade >>
            /\ UNCHANGED << clock, config, keySets, keyRange, currentKeys, nextUpdate,
                            handlerKeys, statusFile, tvars, xvars, idBits, held >>

InitConsistency == Init /\ lifetime = 691175 /\ clock % Day = 43200

NextConsistency ==
    \/ QuietCreateKeys
    \/ ConfigureServer
    \/ CheckDescriptorConsistency

SpecConsistency == InitConsistency /\ [][NextConsistency]_vars

\* ============================================================ update of keys
\* The runs of updateKeys over keyrings with published and unpublished,
\* dead, live and not yet valid keysets and half-made directories.
NextUpdate ==
    \/ QuietTick
    \/ CreateKeysAsNeeded
    \/ PublishPlain
    \/ UpdateKeys

SpecUpdate == InitPublish /\ [][NextUpdate]_vars

\* ========================================================= rotation progress
\* The server sleeps until the time the updateKeys call before has left in
\* self.nextUpdate and then calls updateKeys again: the clock reads that
\* time when it does.
WaitForRotation ==
    /\ last.op = "updateKeys"
    /\ nextUpdate # None
    /\ nextUpdate # MaxInt
    /\ nextUpdate >= clock
    /\ clock' = nextUpdate
    /\ last' = Call("wait", clock', TRUE, << >>, << >>)
    /\ generated' = << >>
    /\ UNCHANGED << config, disk, keySets, keyRange, currentKeys, nextUpdate,
                    handlerKeys, statusFile, failures, objs, tvars, xvars, ivars >>

InitProgress == Init /\ clock % Day = 43200

NextProgress ==
    \/ QuietTick
    \/ QuietCreateKeys
    \/ UpdateKeys
    \/ WaitForRotation

SpecProgress == InitProgress /\ [][NextProgress]_vars

\* ================================================ regeneration of bad keysets
\* configure with a configuration that differs in Nickname and
\* IdentityKeyBits only.
ConfigureNames == ConfigureServer /\ config' = config

\* The runs start from a keyring configured with a lifetime of 17 days, at
\* noon: one keyset is made at the start and one more after 9 days.
InitRegen == Init /\ lifetime = 17 * Day /\ clock % Day = 43200

\* ServerKeyset.publish(url), the directory accepting the descriptor.
PublishAccepted == PublishPlain /\ last'.res = << "accept" >>

\* createKeysAsNeeded calls that make keysets.
MakeKeys == QuietCreateKeys /\ generated' # << >>

NextRegen ==
    \/ QuietTick
    \/ MakeKeys
    \/ PublishAccepted
    \/ ConfigureNames
    \/ CheckDescriptorConsistency

SpecRegen == InitRegen /\ [][NextRegen]_vars

\* ========================================================= current descriptor
\* getCurrentDescriptor(now) at the time 'time' (what time.time() returns):
\* the live keysets are those of getServerKeysets(), which is called
\* without 'now' and so takes the time of the call; among them the first
\* with va <= now <= vu is returned, else the last of them; none when
\* nothing is live (IndexError) or a live keyset cannot be loaded.
getCurrentDescriptor(ks, d, now, time, overlap) ==
    LET live == getServerKeysets(ks, time, overlap)
        hits == { i \in 1..Len(live) : live[i][1] <= now /\ now <= live[i][2] }
    IN  IF live = << >> \/ ~(Names(live) \subseteq DOMAIN d) THEN << >>
        ELSE IF hits # {} THEN << live[SetMin(hits)] >>
        ELSE << live[Len(live)] >>

\* A finished getCurrentDescriptor(now) call made at the time 'at'.
CurrentCall(now, at, res) ==
    [op |-> "getCurrentDescriptor", now |-> now, ok |-> res # << >>, res |-> res,
     dead |-> << >>, at |-> at]

\* ServerKeyring.getCurrentDescriptor(now), called while no thread holds
\* the lock; 'now' is the current time or another time the caller asks for.
GetCurrentDescriptor ==
    \E now \in ClockValues \cup {clock} :
        /\ lockOwner = 0
        /\ last' = CurrentCall(now, clock,
                       getCurrentDescriptor(keySets, disk, now, clock, keyOverlap))
        /\ generated' = << >>
        /\ UNCHANGED << clock, config, disk, keySets, keyRange, currentKeys, nextUpdate,
                        handlerKeys, statusFile, failures, objs, tvars, xvars, ivars >>

NextCurrent ==
    \/ QuietTick
    \/ QuietCreateKeys
    \/ GetCurrentDescriptor

SpecCurrent == InitProgress /\ [][NextCurrent]_vars

\* ======================================================= repeated publication
\* A finished publishKeys(allKeys=0) call of the server's publication
\* round; 'turn' tells a call from the one before it.
RoundCall(now, res, names, result, turn) ==
    [op |-> "publishKeys", now |-> now, ok |-> TRUE, res |-> res, names |-> names,
     dead |-> << >>, allKeys |-> FALSE, result |-> result, turn |-> turn]

\* The turn of the call after the one recorded in 'l'.
NextTurn(l) == IF "turn" \in DOMAIN l THEN 1 - l.turn ELSE 0

\* ServerKeyring.publishKeys(), as the server calls it again and again: the
\* unpublished keysets are sent in the keyring's order and the directory
\* answers each as it likes.
PublishRound ==
    LET todo == ToPublish(keySets, objs, FALSE)
    IN  /\ \A i \in 1..Len(todo) : todo[i] \in DOMAIN disk /\ disk[todo[i]].hasDesc
        /\ IF todo = << >>
           THEN /\ last' = RoundCall(clock, << >>, << >>, None, NextTurn(last))
                /\ UNCHANGED << disk, objs >>
           ELSE \E replies \in [1..Len(todo) -> PlainReplies] :
                   LET r == PublishLoop(1, todo, replies, disk, objs, << >>, 0)
                   IN  /\ disk' = r.disk
                       /\ objs' = r.objs
                       /\ last' = RoundCall(clock, r.res, SubSeq(todo, 1, Len(r.res)),
                                            r.result, NextTurn(last))
        /\ generated' = << >>
        /\ PublishUnchanged

NextRound ==
    \/ QuietTick
    \/ MakeKeys
    \/ PublishRound

\* The server keeps calling publishKeys.
SpecRound == InitPublish /\ [][NextRound]_vars /\ WF_vars(PublishRound)

\* ================================================================== claims
Range(seq) == { seq[i] : i \in 1..Len(seq) }

\* The time the keyring is asked to have keys for.
Horizon(now) == now + PUBLICATION_LATENCY + PREPUBLICATION_INTERVAL

\* C1: after updateKeys(when) returns, no keyset with
\* valid_until + overlap < when is in the snapshot given to the packet
\* handler, in the keyring's vector, or on disk.
C1_NoDeadAfterUpdate ==
    last.op = "updateKeys" =>
        /\ \A e \in Range(keySets) : ~(e[2] + keyOverlap < last.now)
        /\ \A n \in DOMAIN disk : ~(disk[n].vu * Day + keyOverlap < last.now)
        /\ \A n \in Range(handlerKeys) :
              /\ n \in DOMAIN disk
              /\ ~(disk[n].vu * Day + keyOverlap < last.now)
        /\ Range(last.dead) \cap Range(keySets) = {}

C1_Witness ==
    /\ last.op = "updateKeys"
    /\ last.dead # << >>
    /\ handlerKeys # << >>

\* C2: after createKeysAsNeeded(now) returns normally, the horizon
\* now + PUBLICATION_LATENCY + PREPUBLICATION_INTERVAL is covered: some
\* keyset has valid_after <= horizon <= valid_until, or the last
\* valid_until is already >= horizon.
C2_HorizonCovered ==
    (last.op = "createKeysAsNeeded" /\ last.ok) =>
        \/ \E e \in Range(keySets) :
              e[1] <= Horizon(last.now) /\ Horizon(last.now) <= e[2]
        \/ keySets # << >> /\ keySets[Len(keySets)][2] >= Horizon(last.now)

\* C3: createKeys never gives a new keyset the name of a key directory
\* that exists on disk, also when an earlier generation failed part-way
\* and the caller retries.
C3_NoNameReuse ==
    [][ \A i \in 1..Len(generated') : generated'[i].name \notin DOMAIN disk ]_vars

\* C4 as stated: concurrent updateKeys calls are serialized by the lock the
\* operations take themselves: their steps never interleave and a reader of
\* the vector never sees it mid-rescan.
C4_Original ==
    /\ Cardinality({ t \in Threads : InUpdate(t) }) <= 1
    /\ ~seen.torn

\* C4 amended: updateKeys does not take the keyring's lock itself; calls
\* are serialized when the callers make them inside lock() ... unlock().
\* Calls made under the lock never interleave with each other, and
\* getCurrentDescriptor, which takes the lock itself, never reads the
\* vector while a call made under the lock is in progress or mid-rescan.
C4_Amended ==
    /\ Cardinality({ t \in Threads : InUpdate(t) /\ loc[t].bracket }) <= 1
    /\ \A t \in Threads : (InUpdate(t) /\ loc[t].bracket) => lockOwner = t
    /\ \A t \in Threads :
          pc[t] = "gd_read" =>
              /\ lockOwner = t
              /\ \A u \in Threads \ {t} : ~(InUpdate(u) /\ loc[u].bracket)
    /\ ~seen.tornLocked

\* A call made under the lock is mid-rescan, the vector emptied, while a
\* reader waits for the lock.
C4_Witness ==
    \E t \in Threads : \E u \in Threads \ {t} :
        /\ pc[t] = "uk_fill"
        /\ loc[t].bracket
        /\ loc[t].phase = 2
        /\ keySets = << >>
        /\ pc[u] = "gd_lock"

IsPrefix(a, b) == Len(a) <= Len(b) /\ \A i \in 1..Len(a) : a[i] = b[i]

\* C5: within updateKeys the steps occur in the order scan, compute dead
\* and live sets, push the snapshot to the packet handler, delete the dead
\* keysets, rescan; the snapshot pushed contains no dead keyset, and no
\* dead keyset is deleted from disk before the packet handler has received
\* the new snapshot.
C5_UpdateOrder ==
    /\ [](\A t \in Threads :
            /\ IsPrefix(loc[t].steps,
                        << "scan", "compute", "push", "status", "delete", "rescan" >>)
            /\ "push" \in Range(loc[t].steps) =>
                   /\ loc[t].pushed = [k \in 1..Len(loc[t].keys) |-> loc[t].keys[k][3]]
                   /\ \A e \in Range(loc[t].keys) : ~(e[2] + keyOverlap < loc[t].when)
                   /\ Range(loc[t].keys) \cap Range(loc[t].dead) = {})
    /\ [][ \A t \in Threads :
             (pc[t] = "uk_delete" /\ pc'[t] # pc[t] /\ DOMAIN disk' # DOMAIN disk) =>
                 /\ "push" \in Range(loc[t].steps)
                 /\ loc[t].pushed = [k \in 1..Len(loc[t].keys) |-> loc[t].keys[k][3]]
                 /\ (DOMAIN disk \ DOMAIN disk') \cap Range(loc[t].pushed) = {} ]_vars

\* An updateKeys call that found dead keysets, about to return.
C5_Witness ==
    \E t \in Threads :
        /\ pc[t] = "uk_rotation"
        /\ loc[t].steps = << "scan", "compute", "push", "status", "delete", "rescan" >>
        /\ loc[t].dead # << >>
        /\ handlerKeys = loc[t].pushed
        /\ Names(loc[t].dead) \cap DOMAIN disk = {}

\* C6: getServerKeysets(now) returns exactly the keysets of the keyring
\* with valid_after <= now and valid_until >= now - overlap, each once and
\* in the keyring's order; of two adjacent keysets both are returned from
\* the second one's valid_after until the first one's valid_until + overlap
\* and only the second after that.
C6_LiveSetExact ==
    last.op = "getServerKeysets" =>
        /\ \A e \in Range(keySets) :
              (e \in Range(last.res)) <=>
                  (e[1] <= last.now /\ last.now <= e[2] + keyOverlap)
        /\ Range(last.res) \subseteq Range(keySets)
        /\ \A i, j \in 1..Len(last.res) : i < j => TupleLess(last.res[i], last.res[j])
        /\ \A i \in 1..(Len(keySets) - 1) :
              LET first == keySets[i]
                  second == keySets[i + 1]
              IN  first[2] = second[1] =>
                     /\ (second[1] <= last.now /\ last.now <= first[2] + keyOverlap)
                           => {first, second} \subseteq Range(last.res)
                     /\ (first[2] + keyOverlap < last.now /\ last.now <= second[2] + keyOverlap)
                           => (second \in Range(last.res) /\ first \notin Range(last.res))

\* Two adjacent keysets, both returned.
C6_Witness ==
    /\ last.op = "getServerKeysets"
    /\ Len(last.res) = 2
    /\ last.res[1][2] = last.res[2][1]
    /\ Len(keySets) = 3

\* C7: createKeysAsNeeded(now) changes nothing whenever
\* next_keygen() > now - 10, where next_keygen() is -1 for an empty keyring
\* and otherwise last_valid_until - PUBLICATION_LATENCY -
\* PREPUBLICATION_INTERVAL; otherwise, returning normally, it has generated
\* at least one keyset.
C7_SkipOrGenerate ==
    [][ last'.op = "createKeysAsNeeded" =>
          IF (IF keySets = << >> THEN -1
              ELSE keySets[Len(keySets)][2] - PUBLICATION_LATENCY
                       - PREPUBLICATION_INTERVAL) > clock - 10
          THEN /\ generated' = << >>
               /\ UNCHANGED << disk, keySets, keyRange, currentKeys, nextUpdate,
                               handlerKeys, statusFile >>
          ELSE last'.ok =>
                  /\ Len(generated') >= 1
                  /\ \A i \in 1..Len(generated') : generated'[i].name \in DOMAIN disk'
      ]_vars

\* A call that changed nothing on a keyring that has keys.
C7_Witness ==
    /\ last.op = "createKeysAsNeeded"
    /\ last.ok
    /\ generated = << >>
    /\ keySets # << >>
    /\ keySets[Len(keySets)][2] < Horizon(last.now)

\* C8 as stated: the number of keysets createKeysAsNeeded(now) generates is
\* ceil((horizon - max(last_valid_until, now)) / PublicKeyLifetime), which
\* is 0 when the horizon is covered by the last valid_until and positive
\* whenever it is not.
Uncovered(ks, now) ==
    Horizon(now) - (IF ks # << >> /\ ks[Len(ks)][2] > now THEN ks[Len(ks)][2] ELSE now)

\* n = ceil(x / d), for d > 0
IsCeil(n, x, d) == (n - 1) * d < x /\ x <= n * d

C8_Original ==
    [][ (last'.op = "createKeysAsNeeded" /\ last'.ok) =>
           IsCeil(Len(generated'), Uncovered(keySets, clock), lifetime) ]_vars

\* C8 amended: createKeysAsNeeded(now) generates no keyset when
\* last_valid_until > horizon - 10s, and otherwise exactly
\* ceil((horizon - max(last_valid_until, now)) / PublicKeyLifetime) keysets,
\* a number that is then at least 1.
C8_Amended ==
    [][ (last'.op = "createKeysAsNeeded" /\ last'.ok) =>
           IF keySets # << >> /\ keySets[Len(keySets)][2] > Horizon(clock) - 10
           THEN Len(generated') = 0
           ELSE /\ IsCeil(Len(generated'), Uncovered(keySets, clock), lifetime)
                /\ Len(generated') >= 1 ]_vars

C8_Witness ==
    /\ last.op = "createKeysAsNeeded"
    /\ last.ok
    /\ Len(generated) = 3

\* C9: the keysets generated by one createKeys call form a gap-free chain,
\* for every allowed PublicKeyLifetime: the first starts at the previous
\* midnight of (the previous last valid_until + 60s, or now + 60s if none)
\* and each later one has valid_after equal to the one before's valid_until.
C9_GapFreeChain ==
    [][ (last'.op = "createKeysAsNeeded" /\ generated' # << >>) =>
           /\ generated'[1].va =
                 (LET t == IF keySets # << >> THEN keySets[Len(keySets)][2] + 60
                           ELSE clock + 60
                  IN  t - (t % Day))
           /\ \A i \in 1..(Len(generated') - 1) :
                 generated'[i + 1].va = generated'[i].vu ]_vars

\* C10: in every keyring reachable from the empty one, no two validity
\* windows overlap: at most one keyset has valid_after <= t < valid_until
\* at any instant t.
C10_NoOverlap ==
    \A i, j \in 1..Len(keySets) :
        i # j => ~(keySets[i][1] < keySets[j][2] /\ keySets[j][1] < keySets[i][2])

\* ------------------------------------------------------------ TLS context
IsTlsOp(op) == op \in {"getTLSContext", "updateMMTPServerTLSContext"}

\* C13 as stated: _getTLSContext(force, now) returns the cached context,
\* leaving cache, expiry and chain file alone, iff force is false, a context
\* is cached and its expiry is > now; in every other case it makes a new
\* context, different from the cached one, replaces the chain file and sets
\* the expiry to now + 24h.
C13_Original ==
    [][ (IsTlsOp(last'.op) /\ last'.ok) =>
          LET reuse == ~last'.force /\ tlsContext # None /\ tlsContextExpires > clock
              got == IF last'.op = "getTLSContext" THEN last'.res[1] ELSE serverContext'
          IN  IF reuse
              THEN /\ got = tlsContext
                   /\ UNCHANGED << tlsContext, tlsContextExpires, certFile >>
              ELSE /\ got = tlsContext'
                   /\ tlsContext' \notin {tlsContext, None}
                   /\ certFile' = tlsContext' /\ certFile' # certFile
                   /\ tlsContextExpires' = clock + 24 * 3600 ]_vars

\* C13, amended: the cached context is returned iff force is false, a
\* context is cached and its expiry is >= now (a context is still reused at
\* the very second it expires); otherwise a new one is made as above.
C13_Amended ==
    [][ (IsTlsOp(last'.op) /\ last'.ok) =>
          LET reuse == ~last'.force /\ tlsContext # None /\ tlsContextExpires >= clock
              got == IF last'.op = "getTLSContext" THEN last'.res[1] ELSE serverContext'
          IN  IF reuse
              THEN /\ got = tlsContext
                   /\ UNCHANGED << tlsContext, tlsContextExpires, certFile >>
              ELSE /\ got = tlsContext'
                   /\ tlsContext' \notin {tlsContext, None}
                   /\ certFile' = tlsContext' /\ certFile' # certFile
                   /\ tlsContextExpires' = clock + 24 * 3600 ]_vars

\* A context made 24 hours ago and never replaced has just been asked for
\* again, without force, and a second one made after the first had expired
\* exists.
C13_Witness ==
    /\ last.op = "getTLSContext" /\ last.ok /\ ~last.force
    /\ last.now = TlsStart + 49 * 3600
    /\ tlsContextExpires = last.now
    /\ last.res = << tlsContext >>
    /\ tlsContext = 2

\* C14: when the certificate chain or the TLS context cannot be built, the
\* call raises, the cached context and its expiry stay as they were and
\* the MMTP server keeps the context it had.
C14_FailedRefreshKeepsCache ==
    [][ (IsTlsOp(last'.op) /\ ~last'.ok) =>
          UNCHANGED << tlsContext, tlsContextExpires, serverContext >> ]_vars

\* A refresh failed while a context was cached and in use by the MMTP
\* server, after the chain file had been replaced.
C14_Witness ==
    /\ last.op = "updateMMTPServerTLSContext" /\ ~last.ok
    /\ tlsContext # None /\ serverContext = tlsContext
    /\ certFile # tlsContext

\* ------------------------------------------------------------ publication
\* C15: ServerKeyset.publish marks the keyset published, file and flag,
\* when the outcome is 'accept', and only then: on 'reject' and 'error'
\* file and flag are as before the call.
C15_PublishMarksOnAccept ==
    [][ last'.op = "publish" =>
          LET n == last'.names[1]
              status == last'.res[1]
          IN  IF status = "accept"
              THEN disk'[n].published /\ objs'[n].published
              ELSE /\ disk'[n].published = disk[n].published
                   /\ objs'[n].published = objs[n].published ]_vars

\* A keyset has just been accepted by the directory while another one is
\* still unpublished.
C15_Witness ==
    /\ last.op = "publish" /\ last.res = << "accept" >>
    /\ disk[last.names[1]].published /\ objs[last.names[1]].published
    /\ \E m \in DOMAIN objs : ~objs[m].published /\ ~disk[m].published

\* The bodies with a well-formed Status/Message pair, by the status of the
\* first such pair.
AcceptBodies ==
    { << StatusLine("1"), MessageLine >>,
      << << "Status:", " ", "1", " ", "\t" >>, << "Message:", " " >> >>,
      << StatusLine("2"), MessageLine, StatusLine("1"), MessageLine >> }
RejectBodies ==
    { << StatusLine("0"), MessageLine >>,
      << << "x" >>, StatusLine("0"), MessageLine >>,
      << StatusLine("0"), MessageLine, StatusLine("1"), MessageLine >> }

\* C16: every reply of the directory is classified as exactly one of
\* accept, reject, error: a text/plain reply with a Status/Message pair of
\* status 1 is accept, of status 0 reject, and an I/O failure, another
\* content type or a reply without such a pair is error.
C16_ReplyClassified ==
    last.op = "publish" =>
        LET r == last.reply
            status == last.res[1]
            plain == ~r.io /\ r.ctype = "text/plain"
        IN  /\ status \in {"accept", "reject", "error"}
            /\ status = "accept" <=> (plain /\ r.body \in AcceptBodies)
            /\ status = "reject" <=> (plain /\ r.body \in RejectBodies)

\* A reply whose body says 'accepted' came with the wrong content type.
C16_Witness ==
    /\ last.op = "publish"
    /\ ~last.reply.io /\ last.reply.ctype = "text/html"
    /\ last.reply.body = << StatusLine("1"), MessageLine >>
    /\ last.res = << "error" >>

\* C17: publishKeys returns 1 only if every publication it tried was
\* accepted; it stops at the first 'error', leaving the remaining keysets
\* untried, and returns 0; a 'reject' does not stop it but makes it return
\* 0; without allKeys only the keysets whose published flag is clear are
\* tried, in the keyring's order.
C17_PublishKeysResult ==
    [][ last'.op = "publishKeys" =>
          LET Unpublished(n) == ~objs[n].published
              want == IF last'.allKeys THEN SeqNames(keySets)
                      ELSE SelectSeq(SeqNames(keySets), Unpublished)
              tried == last'.names
              res == last'.res
              errors == { i \in 1..Len(res) : res[i] = "error" }
          IN  /\ Len(res) = Len(tried)
              /\ IsPrefix(tried, want)
              /\ last'.result = 1 => \A i \in 1..Len(res) : res[i] = "accept"
              /\ errors # {} => errors = {Len(res)} /\ last'.result = 0
              /\ errors = {} => tried = want
              /\ (\E i \in 1..Len(res) : res[i] = "reject") => last'.result = 0
              /\ (errors = {} /\ want # << >> /\ \A i \in 1..Len(res) : res[i] = "accept")
                    => last'.result = 1 ]_vars

\* Of three unpublished keysets the first was rejected, the second ended in
\* an error, and the third was not tried.
C17_Witness ==
    /\ last.op = "publishKeys" /\ ~last.allKeys
    /\ Len(keySets) = 3
    /\ last.res = << "reject", "error" >>
    /\ last.result = 0
    /\ \A n \in DOMAIN objs : ~objs[n].published

\* C18: regenerateServerDescriptor keeps the packet key and the validity
\* window of the keyset, writes the descriptor anew from the current
\* configuration, and leaves the keyset unpublished (no file, flag clear)
\* and the object's cached descriptor and liveness empty.
C18_RegenerateKeepsKeyAndWindow ==
    [][ (last'.op = "regenerateDescriptors" /\ last'.ok) =>
          \A n \in Names(keySets) :
              /\ disk'[n].hasKey /\ disk'[n].key = disk[n].key
              /\ disk'[n].va = disk[n].va /\ disk'[n].vu = disk[n].vu
              /\ disk'[n].hasDesc /\ disk'[n].nick = nickname
              /\ ~disk'[n].published /\ ~objs'[n].published
              /\ objs'[n].serverinfo = None
              /\ objs'[n].validAfter = None /\ objs'[n].validUntil = None ]_vars

\* Three published keysets have been regenerated under a changed Nickname.
C18_Witness ==
    /\ last.op = "regenerateDescriptors" /\ last.ok
    /\ Len(keySets) = 3 /\ last.was = Names(keySets)
    /\ nickname = 2
    /\ \A n \in Names(keySets) : disk[n].nick = 2 /\ ~disk[n].published

\* ------------------------------------------------------ descriptor windows
\* C11: every descriptor written, for a new keyset or a regenerated one,
\* has Valid-After and Valid-Until at midnight UTC: Valid-After is the last
\* midnight not after the requested start + 30s and, no Valid-Until being
\* asked for, Valid-Until is the last midnight not after Valid-After +
\* PublicKeyLifetime + 30s.
C11_WindowsAtMidnight ==
    \A i \in 1..Len(generated) :
        LET g == generated[i]
        IN  /\ g.va % Day = 0 /\ g.vu % Day = 0
            /\ g.va <= g.at + 30 /\ g.at + 30 < g.va + Day
            /\ g.until = None =>
                  /\ g.vu <= g.va + lifetime + 30
                  /\ g.va + lifetime + 30 < g.vu + Day
            /\ g.name \in DOMAIN disk =>
                  /\ parseDate(disk[g.name].va) = g.va
                  /\ parseDate(disk[g.name].vu) = g.vu

\* A keyset was generated whose requested start was not a midnight.
C11_Witness ==
    /\ Len(generated) = 3
    /\ generated[2].until = None
    /\ generated[2].at % Day # 0
    /\ generated[2].name \in DOMAIN disk

C19_NextRotationIsFirstEvent ==
    [][ last'.op = "getNextKeyRotation" =>
          LET cur == CurKeys(currentKeys, keySets, clock, keyOverlap)
              removals == { cur[i][2] + keyOverlap : i \in 1..Len(cur) }
              additions == { keySets[i][1] : i \in { j \in 1..Len(keySets) :
                                \A k \in 1..Len(cur) : cur[k][3] # keySets[j][3] } }
          IN  /\ keySets = << >> /\ cur = << >> => last'.res = MaxInt
              /\ removals \cup additions # {} =>
                    /\ last'.res \in removals \cup additions
                    /\ \A e \in removals \cup additions : last'.res <= e ]_vars

\* The same, for the calls that find self.nextUpdate empty and compute.
C19_Computed ==
    [][ (last'.op = "getNextKeyRotation" /\ ~last'.cached) =>
          LET cur == CurKeys(currentKeys, keySets, clock, keyOverlap)
              removals == { cur[i][2] + keyOverlap : i \in 1..Len(cur) }
              additions == { keySets[i][1] : i \in { j \in 1..Len(keySets) :
                                \A k \in 1..Len(cur) : cur[k][3] # keySets[j][3] } }
          IN  /\ keySets = << >> /\ cur = << >> => last'.res = MaxInt
              /\ removals \cup additions # {} =>
                    /\ last'.res \in removals \cup additions
                    /\ \A e \in removals \cup additions : last'.res <= e ]_vars

\* C20: every step that changes the KeySet vector leaves the cached
\* next-rotation time empty or equal to the value computed from the new
\* vector, so that the next getNextKeyRotation returns no value computed
\* before the change.
C20_MutationInvalidatesCache ==
    [][ keySets' # keySets =>
          \/ nextUpdate' = None
          \/ nextUpdate' = getNextKeyRotation(keySets',
                               CurKeys(currentKeys', keySets', clock', keyOverlap),
                               keyOverlap) ]_vars

\* ------------------------------------------------------------------- scans
\* C21: after checkKeys every key directory on disk is complete (an
\* owner-only mix.key and a ServerDesc that parses) and is in
\* self.keySets; every directory that was incomplete is deleted, every
\* complete one is kept as it was; and self.keySets is sorted ascending by
\* valid_after.
C21_ScanLeavesCompleteSorted ==
    [][ last'.op = "checkKeys" =>
          /\ \A n \in DOMAIN disk' :
                /\ disk'[n].hasKey /\ disk'[n].private
                /\ disk'[n].hasDesc /\ disk'[n].parses
                /\ \E i \in 1..Len(keySets') :
                      keySets'[i] = << parseDate(disk'[n].va), parseDate(disk'[n].vu), n >>
          /\ \A i \in 1..Len(keySets') : keySets'[i][3] \in DOMAIN disk'
          /\ \A n \in DOMAIN disk :
                IF Intact(disk[n]) THEN n \in DOMAIN disk' /\ disk'[n] = disk[n]
                ELSE n \notin DOMAIN disk'
          /\ \A i \in 1..Len(keySets') : \A j \in 1..Len(keySets') :
                i < j => keySets'[i][1] <= keySets'[j][1] ]_vars

\* A scan has kept two keysets and deleted the directory numbered between
\* them.
C21_Witness ==
    /\ last.op = "checkKeys"
    /\ DOMAIN disk = {1, 3}
    /\ Len(keySets) = 2
    /\ keyRange = << 1, 3 >>

NthName(f, l, k) ==
    IF f = MaxInt THEN k
    ELSE IF k <= f - 1 THEN f - k
    ELSE l + (k - (f - 1))

C22_UpdateKeysIdempotent ==
    last.op = "updateKeys" =>
        LET again == updateKeys(disk, last.now, keyOverlap)
        IN  /\ again.dead = << >>
            /\ again.disk = disk
            /\ again.keySets = keySets
            /\ again.nextUpdate = nextUpdate
            /\ SeqNames(again.keys) = handlerKeys
            /\ SeqNames(again.keys) = statusFile
            /\ again.keys = currentKeys.keys

\* updateKeys has deleted a dead keyset and pushed a live one.
C22_Witness ==
    /\ last.op = "updateKeys"
    /\ last.dead # << >>
    /\ last.res # << >>
    /\ Len(keySets) >= 2

\* ------------------------------------------------------------- identity key
\* The operations that call getIdentityKey().
IdentityUsers == {"createKeysAsNeeded", "regenerateDescriptors", "getTLSContext"}

\* C27: the identity key is made by the first operation that needs one and
\* then stays the same key: no step but removeIdentityKey changes the stored
\* key, also after IdentityKeyBits was reconfigured; only an operation that
\* signs makes a key; every descriptor a step writes is signed by the stored
\* key.
C27_IdentityKeyImmutable ==
    [][ /\ (identity # NoIdentity /\ last'.op # "removeIdentityKey")
              => identity' = identity
        /\ (identity = NoIdentity /\ identity' # NoIdentity)
              => last'.op \in IdentityUsers
        /\ \A i \in 1..Len(generated') :
              disk'[generated'[i].name].signer = identity' ]_vars

\* Descriptors were regenerated with the key made before IdentityKeyBits
\* was changed.
C27_Witness ==
    /\ last.op = "regenerateDescriptors"
    /\ last.ok
    /\ generated # << >>
    /\ identity # NoIdentity
    /\ identity.bits # idBits
    /\ \A i \in 1..Len(generated) : disk[generated[i].name].signer = identity

\* ------------------------------------------------------------- keyring lock
\* C26: getCurrentDescriptor gives the lock back on every path: outside the
\* call a thread holds the lock exactly as often as it has called lock(),
\* inside it once more, whether the call returned or raised; the lock is
\* free when nobody holds it; a thread that holds the lock through lock()
\* is not made to wait by the acquire of getCurrentDescriptor.
C26_LockReleasedOnEveryPath ==
    /\ \A t \in Threads :
          /\ pc[t] \in {"idle", "gd_lock"} => Holds(t) = held[t]
          /\ pc[t] = "gd_read" => Holds(t) = held[t] + 1
          /\ (pc[t] = "gd_lock" /\ held[t] > 0) => CanAcquire(t)
    /\ (lockOwner = 0) = (lockCount = 0)
    /\ lockCount >= 0

\* getCurrentDescriptor has raised (no live keyset) in a thread that holds
\* the lock twice through lock(), and the thread still holds it twice.
C26_Witness ==
    /\ last.op = "getCurrentDescriptor"
    /\ ~last.ok
    /\ \E t \in Threads : pc[t] = "idle" /\ held[t] = 2 /\ Holds(t) = 2

\* ------------------------------------------------- configuration validation
\* C28: validation passes exactly when PublicKeyOverlap is within 6 to 72
\* hours (both included), PublicKeyLifetime is at least 24 hours and
\* IdentityKeyBits is within 2048 to 4096 (both included); otherwise it
\* raises ConfigError.
C28_ValidationBounds ==
    last.op = "validate" =>
        LET bits == last.res[1]
            keyLifetime == last.res[2]
            overlap == last.res[3]
            inside == /\ 6 * 60 * 60 <= overlap /\ overlap <= 72 * 60 * 60
                      /\ keyLifetime >= 24 * 60 * 60
                      /\ 2048 <= bits /\ bits <= 4096
        IN  /\ last.ok = inside
            /\ last.raised = IF inside THEN "none" ELSE "ConfigError"

\* A configuration with every value on a limit was accepted.
C28_Witness ==
    /\ last.op = "validate"
    /\ last.res = << 2048, 24 * 60 * 60, 6 * 60 * 60 >>
    /\ last.ok

\* An overlap of 5h59m was refused.
C28_WitnessRefused ==
    /\ last.op = "validate"
    /\ last.res = << 4096, 24 * 60 * 60, 21540 >>
    /\ last.raised = "ConfigError"

\* --------------------------------------------------- failed key generation
\* C25: when a descriptor build raises inside createKeys, the call fails
\* and no partial keyset is left valid: the directory of the round that
\* raised is not in the keyring's vector and would not survive a scan, and
\* the keysets the call had finished before are complete on disk with the
\* validity they were generated with.
C25_FailedBuildLeavesNothingValid ==
    [][ (last'.op = "createKeysAsNeeded" /\ ~last'.ok) =>
           LET h == NthName(keyRange[1], keyRange[2], Len(generated') + 1)
           IN  /\ h \in DOMAIN disk'
               /\ h \notin Names(keySets')
               /\ h \notin GoodNames(disk')
               /\ h \notin Names(checkKeys(disk').keySets)
               /\ \A i \in 1..Len(generated') :
                     /\ generated'[i].name \in GoodNames(disk')
                     /\ getLiveness(disk'[generated'[i].name])
                           = << generated'[i].va, generated'[i].vu >> ]_vars

\* --------------------------------------------------- descriptor consistency
\* The window of the descriptor is not the configured lifetime, as
\* checkDescriptorConsistency compares them.
WindowDiffers(info, keyLifetime) ==
    previousMidnight(parseDate(info.vu)) # previousMidnight(keyLifetime + parseDate(info.va))

\* C23: a keyset is 'bad' exactly when a mismatch the operator can act on
\* is counted (Nickname, configuration summary), 'so-so' exactly when the
\* only mismatches are the size of the identity key and/or the length of
\* the window, 'good' exactly when there is none; a keyset that is not
\* 'bad' is not regenerated.
C23_ConsistencyVerdicts ==
    [][ last'.op = "checkDescriptorConsistency" =>
          \A n \in Names(keySets) :
             LET info == disk[n]
                 actionable == info.nick # nickname \/ info.summary # keyOverlap
                 excused == info.signer.bits # idBits \/ WindowDiffers(info, lifetime)
                 v == last'.verdict[n]
             IN  /\ (v = "bad") = actionable
                 /\ (v = "so-so") = (~actionable /\ excused)
                 /\ (v = "good") = (~actionable /\ ~excused)
                 /\ v # "bad" =>
                       /\ disk'[n] = disk[n]
                       /\ \A i \in 1..Len(generated') : generated'[i].name # n ]_vars

\* A keyset whose descriptor differs from the configuration in the size of
\* the identity key and in the length of the window, and in nothing else,
\* was found 'so-so' and left as it was.
C23_Witness ==
    /\ last.op = "checkDescriptorConsistency"
    /\ generated = << >>
    /\ \E n \in Names(keySets) :
          /\ last.verdict[n] = "so-so"
          /\ disk[n].signer.bits # idBits
          /\ WindowDiffers(disk[n], lifetime)
          /\ disk[n].nick = nickname
          /\ disk[n].summary = keyOverlap

\* A 'bad' keyset was regenerated.
C23_WitnessBad ==
    /\ last.op = "checkDescriptorConsistency"
    /\ last.ok
    /\ generated # << >>
    /\ \A i \in 1..Len(generated) : last.verdict[generated[i].name] = "bad"

\* C24: the descriptor just built from a configuration (by createKeys or by
\* a regeneration) is 'good' when checked against that configuration, also
\* when the stored identity key has another size than IdentityKeyBits.
C24_FreshDescriptorIsGood ==
    [][ \A i \in 1..Len(generated') :
           checkDescriptorConsistency(disk'[generated'[i].name], nickname',
                                      idBits', lifetime', keyOverlap') = "good" ]_vars

\* What the code does ensure: the descriptor just built is never 'bad'.
C24_FreshDescriptorNotBad ==
    [][ \A i \in 1..Len(generated') :
           checkDescriptorConsistency(disk'[generated'[i].name], nickname',
                                      idBits', lifetime', keyOverlap') # "bad" ]_vars

\* ----------------------------------------------------------- dead and live
\* The times at which the dead and the live keysets of a keyring are
\* compared: the current time and, for every keyset, the second before, at
\* and after its valid_after, its valid_until and its valid_until + overlap.
ProbeTimes(ks, now, overlap) ==
    {now} \cup UNION { { ks[i][1] + d, ks[i][2] + d, ks[i][2] + overlap + d } :
                          i \in 1..Len(ks), d \in {-1, 0, 1} }

\* C32: at every time the dead keysets (valid_until + overlap < now) and
\* the live keysets are disjoint; a keyset with valid_after <= now is in
\* exactly one of the two, a keyset with valid_after > now in neither.
C32_DeadLivePartition ==
    \A now \in ProbeTimes(keySets, clock, keyOverlap) :
        LET dead == Names(getDeadKeys(keySets, now, keyOverlap))
            live == Names(getLiveKeys(keySets, now, keyOverlap))
        IN  /\ dead \cap live = {}
            /\ \A i \in 1..Len(keySets) :
                  LET e == keySets[i]
                  IN  /\ (e[3] \in dead) = (e[2] + keyOverlap < now)
                      /\ e[1] <= now => ((e[3] \in dead) # (e[3] \in live))
                      /\ e[1] > now => (e[3] \notin dead /\ e[3] \notin live)

\* The keyring holds a dead, a live and a not yet valid keyset.
C32_Witness ==
    /\ Names(getDeadKeys(keySets, clock, keyOverlap)) # {}
    /\ Names(getLiveKeys(keySets, clock, keyOverlap)) # {}
    /\ \E i \in 1..Len(keySets) : keySets[i][1] > clock

\* ---------------------------------------------------------- update of keys
\* The entry of the keyring's vector for the complete key directory n.
EntryOf(d, n) == << getLiveness(d[n])[1], getLiveness(d[n])[2], n >>

C34_RotationMakesProgress ==
    [][ (last.op = "wait" /\ last'.op = "updateKeys") =>
           /\ handlerKeys' # handlerKeys
           /\ nextUpdate' > clock ]_vars

\* The part of C34 that holds: the next rotation is never before the time
\* of the call that computed it.
C34_RotationNotInPast ==
    [][ last'.op = "updateKeys" => nextUpdate' >= clock ]_vars

\* ------------------------------------------------------------- a usable key
\* C35: after createKeysAsNeeded(now) has returned and updateKeys(now) has
\* followed it, at the same time, some keyset is live: the packet handler
\* has a key.
C35_AlwaysALiveKey ==
    [][ (/\ last.op = "createKeysAsNeeded" /\ last.ok
         /\ last'.op = "updateKeys" /\ last'.now = last.now)
            => handlerKeys' # << >> ]_vars

\* -------------------------------------------------- failed regeneration
\* C36: when the descriptor build of a regeneration raises, the keyset it
\* was regenerating is as before the call: its key directory (descriptor,
\* published marker) and its published flag are unchanged.
C36_FailedRegenerationLeavesKeyset ==
    [][ (last'.op = "regenerateDescriptors" /\ ~last'.ok) =>
           LET n == last'.res[Len(generated') + 1]
           IN  (n \in DOMAIN disk /\ checkPrivateFile(disk[n])) =>
                   /\ disk'[n] = disk[n]
                   /\ objs'[n].published = objs[n].published ]_vars

\* The part of C36 that holds: the descriptor on disk is the old one.
C36_FailedRegenerationKeepsDescriptor ==
    [][ (last'.op = "regenerateDescriptors" /\ ~last'.ok) =>
           LET n == last'.res[Len(generated') + 1]
           IN  (n \in DOMAIN disk /\ checkPrivateFile(disk[n])) =>
                   disk'[n] = [disk[n] EXCEPT !.published = FALSE] ]_vars

\* ------------------------------------------------ regeneration of bad keysets
\* C31: a checkDescriptorConsistency(regen=1) call that returns has
\* regenerated exactly the keysets that were 'bad' against the current
\* configuration; the directories and published flags of the others are
\* untouched; afterwards no keyset of the keyring is 'bad' and every
\* regenerated keyset is unpublished.
C31_RegeneratesExactlyBad ==
    [][ (last'.op = "checkDescriptorConsistency" /\ last'.ok) =>
           LET regen == { generated'[i].name : i \in 1..Len(generated') }
           IN  /\ regen = { n \in Names(keySets) : checkConsistency(disk, n) = "bad" }
               /\ \A n \in Names(keySets) \ regen :
                     /\ disk'[n] = disk[n]
                     /\ objs'[n].published = objs[n].published
               /\ \A n \in Names(keySets') : checkConsistency(disk', n) # "bad"
               /\ \A n \in regen :
                     /\ ~disk'[n].published
                     /\ ~objs'[n].published
                     /\ disk'[n].nick = nickname ]_vars

\* A call has regenerated some keysets and left a published one, which was
\* not 'bad', as it was.
C31_Witness ==
    /\ last.op = "checkDescriptorConsistency"
    /\ last.ok
    /\ generated # << >>
    /\ \E n \in Names(keySets) :
          /\ last.verdict[n] # "bad"
          /\ disk[n].published
          /\ \A i \in 1..Len(generated) : generated[i].name # n

\* -------------------------------------------------------- current descriptor
\* The keysets of the keyring with va <= now <= vu.
ValidAt(ks, now) == { i \in 1..Len(ks) : ks[i][1] <= now /\ now <= ks[i][2] }

\* C38: getCurrentDescriptor(now) returns the descriptor of a keyset with
\* va <= now <= vu whenever the keyring holds one; when it holds none but
\* some keyset is live at 'now' by the overlap, it returns the last of the
\* live ones.
C38_CurrentDescriptor ==
    last.op = "getCurrentDescriptor" =>
        LET now == last.now
            live == getLiveKeys(keySets, now, keyOverlap)
        IN  /\ ValidAt(keySets, now) # {} =>
                  /\ last.ok
                  /\ \E i \in ValidAt(keySets, now) : last.res = << keySets[i] >>
            /\ (ValidAt(keySets, now) = {} /\ live # << >>) =>
                  last.res = << live[Len(live)] >>

\* The part of C38 that holds: the claim for calls whose 'now' is the time
\* of the call.
C38_CurrentDescriptorAtCallTime ==
    (last.op = "getCurrentDescriptor" /\ last.now = last.at) =>
        LET now == last.now
            live == getLiveKeys(keySets, now, keyOverlap)
        IN  /\ ValidAt(keySets, now) # {} =>
                  /\ last.ok
                  /\ \E i \in ValidAt(keySets, now) : last.res = << keySets[i] >>
            /\ (ValidAt(keySets, now) = {} /\ live # << >>) =>
                  last.res = << live[Len(live)] >>

\* ------------------------------------------------------ repeated publication
\* The names the keysets of the runs take.
RoundNames == 1..MaxKeyNum

\* Keyset n is not in the keyring or is published.
Published(n) == n \in Names(keySets) => (n \in DOMAIN objs /\ objs[n].published)

\* The last publishKeys call sent keyset n / got 'error' for keyset n.
Attempted(n) ==
    /\ last.op = "publishKeys"
    /\ \E i \in 1..Len(last.names) : last.names[i] = n
Errored(n) ==
    /\ last.op = "publishKeys"
    /\ \E i \in 1..Len(last.names) : last.names[i] = n /\ last.res[i] = "error"

\* The directory eventually accepts keyset n when it is attempted: if n is
\* attempted again and again, there is a time from which it is published.
AcceptsInTheEnd(n) == ([]<>Attempted(n)) => <>[]Published(n)


\* Every keyset of the keyring is published, or every one but b.
AllPublished == \A n \in RoundNames : Published(n)
OthersPublished(b) == \A n \in RoundNames \ {b} : Published(n)
EarlierPublished(b) == \A n \in RoundNames : n < b => Published(n)

\* When the directory accepts every keyset in the end, repeated
\* publishKeys calls publish every keyset.
RoundPublishesAll ==
    (\A n \in RoundNames : AcceptsInTheEnd(n)) => <>[]AllPublished

\* C37 (as stated): under repeated publishKeys(allKeys=0) calls every keyset
\* the directory accepts in the end is published in the end, and a keyset
\* that is rejected or in error for ever does not keep the others from
\* being published.
C37_FailingKeysetBlocksNothing ==
    /\ RoundPublishesAll
    /\ \A b \in RoundNames :
          (\A n \in RoundNames \ {b} : AcceptsInTheEnd(n)) => <>[]OthersPublished(b)

\* C37 (amended): under repeated publishKeys(allKeys=0) calls every keyset
\* is published in the end when the directory accepts each in the end; a
\* keyset that is rejected for ever (and from some time on never in error)
\* does not keep the others from being published, and a keyset that is in error for ever
\* does not keep the keysets before it in the keyring from being published.
C37_RejectedKeysetBlocksNothing ==
    /\ RoundPublishesAll
    /\ \A b \in RoundNames :
          ((\A n \in RoundNames \ {b} : AcceptsInTheEnd(n)) /\ <>[]~Errored(b))
             => <>[]OthersPublished(b)
    /\ \A b \in RoundNames :
          (\A n \in RoundNames : n < b => AcceptsInTheEnd(n)) => <>[]EarlierPublished(b)

\* Witness: a call got 'reject' for the first keyset and went on to
\* publish the two after it.
C37_Witness ==
    /\ last.op = "publishKeys"
    /\ last.names = << 1, 2, 3 >>
    /\ last.res = << "reject", "accept", "accept" >>
    /\ ~Published(1) /\ Published(2) /\ Published(3)

\* The keysets of the runs have the names of RoundNames.
RoundNamesCoverKeyring == Names(keySets) \subseteq RoundNames

=============================================================================
